---- MODULE Spec2Model ----
(***************************************************************************)
(* Indivisible-margin strategy trade (strategy/strategyindmargintrade.py, *)
(* strategy/strategytrade.py) driven by the operations of its owning      *)
(* trader and by the order/position events of a broker.                   *)
(*                                                                         *)
(* Quantities are whole lots, prices whole ticks; averages and the        *)
(* profit/loss rate are exact rationals <<numerator, denominator>>.       *)
(* Python's None is the value None (-1); ids are positive integers.       *)
(***************************************************************************)
EXTENDS Integers, Sequences, FiniteSets, TLC

\* ---------------------------------------------------------------- bounds
MaxQty == 2          \* largest ordered quantity
MaxOverfill == 1     \* lots an exchange may fill above the ordered quantity
MaxPrice == 2        \* prices are 1..MaxPrice
MaxOrders == 4       \* orders the broker accepts for the trade
MaxReplay == 1       \* duplicate deliveries of a trade event
MaxEvents == 4       \* order and position events the broker sends
MaxOps == 2          \* operations of the trader on the opened trade
MaxTime == 1         \* broker timestamps are 1..MaxTime
MoreEvents == 2      \* further events in a run with child orders
MoreOps == 1         \* further operations in a run with child orders
ProcessEvents == 2   \* events the broker sends between the trader's passes
MaxNow == 3          \* the trader's clock runs over 0..MaxNow
MaxTrades == 2       \* largest max_trades parameter of the trader
MaxOperations == 1   \* operations the user adds to a trade

Prices == 1..MaxPrice
Quantities == 1..MaxQty
Dirs == {1, -1}
Timestamps == 1..MaxTime
TakeProfitPrices == {MaxPrice}   \* targets the trader asks for
StopLossPrices == {1}            \* stops the trader asks for
AtrStops == Prices               \* stops the ATR indicator gives
OrderPrices == {1}               \* limit prices the trader enters at
Timeframes == {1, 2}             \* timeframes of the signals, in clock units

\* ------------------------------------------------------------- constants
None == -1

STATE_NEW == 0
STATE_REJECTED == 1
STATE_DELETED == 2
STATE_CANCELED == 3
STATE_OPENED == 4
STATE_PARTIALLY_FILLED == 5
STATE_FILLED == 6

ORDER_MARKET == "ORDER_MARKET"
ORDER_LIMIT == "ORDER_LIMIT"
ORDER_STOP == "ORDER_STOP"
ORDER_TAKE_PROFIT_LIMIT == "ORDER_TAKE_PROFIT_LIMIT"

SIGNAL_ORDER_OPENED == "SIGNAL_ORDER_OPENED"
SIGNAL_ORDER_DELETED == "SIGNAL_ORDER_DELETED"
SIGNAL_ORDER_CANCELED == "SIGNAL_ORDER_CANCELED"
SIGNAL_ORDER_UPDATED == "SIGNAL_ORDER_UPDATED"
SIGNAL_ORDER_TRADED == "SIGNAL_ORDER_TRADED"
SIGNAL_POSITION_DELETED == "SIGNAL_POSITION_DELETED"

\* objects a method returns
True == "True"
False == "False"
NoReturn == "None"

NoError == "none"
AttributeError == "AttributeError"
ZeroDivisionError == "ZeroDivisionError"
TypeError == "TypeError"

\* ------------------------------------------------- exact (float) numbers
Abs(n) == IF n < 0 THEN -n ELSE n

RECURSIVE GCD(_, _)
GCD(a, b) == IF b = 0 THEN a ELSE GCD(b, a % b)

\* the number n/d, d # 0, in lowest terms with a positive denominator
Rat(n, d) ==
    LET g == GCD(Abs(n), Abs(d))
        s == IF d < 0 THEN -1 ELSE 1
    IN  <<(s * n) \div g, (s * d) \div g>>

Num(q) == Rat(q, 1)
RAdd(p, q) == Rat(p[1] * q[2] + q[1] * p[2], p[2] * q[2])
RSub(p, q) == Rat(p[1] * q[2] - q[1] * p[2], p[2] * q[2])
RMul(p, q) == Rat(p[1] * q[1], p[2] * q[2])
RDiv(p, q) == Rat(p[1] * q[2], p[2] * q[1])
RIsZero(p) == p[1] = 0
RSign(p) == IF p[1] > 0 THEN 1 ELSE IF p[1] < 0 THEN -1 ELSE 0

\* result of a method: the trade it leaves, what it returned or raised, and
\* the broker calls it made, in order
Result(t, ret, exc, calls) == [t |-> t, ret |-> ret, raised |-> exc, calls |-> calls]

\* ------------------------------------------------------------ the trade
\* StrategyTrade.__init__ followed by StrategyIndMarginTrade.__init__
\* StrategyTrade.TRADE_ASSET, TRADE_MARGIN, TRADE_IND_MARGIN
TRADE_ASSET == 0
TRADE_MARGIN == 1
TRADE_IND_MARGIN == 2

NewTrade ==
    [ create_ref_oid |-> None, stop_ref_oid |-> None, limit_ref_oid |-> None,
      create_oid |-> None, stop_oid |-> None, limit_oid |-> None,
      position_id |-> None,
      stop_order_qty |-> 0, limit_order_qty |-> 0,
      entry_state |-> STATE_NEW, exit_state |-> STATE_NEW,
      dir |-> 0, op |-> 0, oq |-> 0, tp |-> 0, sl |-> 0,
      aep |-> Num(0), axp |-> Num(0),
      eot |-> 0, xot |-> 0,
      e |-> 0, x |-> 0,
      pl |-> Num(0),
      entry_maker |-> FALSE, exit_maker |-> FALSE,
      id |-> 0, timeframe |-> 0, user_trade |-> FALSE, operations |-> 0,
      trade_type |-> TRADE_IND_MARGIN ]

is_market(order_type) == order_type = ORDER_MARKET

\* attributes an instance may hold: the union of the two __slots__
Slots ==
    { "_trade_type", "_entry_state", "_exit_state", "_timeframe", "_operations",
      "_user_trade", "_next_operation_id", "id", "dir", "op", "oq", "tp", "sl",
      "aep", "axp", "eot", "xot", "e", "x", "pl", "ptp", "_stats",
      "create_ref_oid", "stop_ref_oid", "limit_ref_oid", "create_oid",
      "stop_oid", "limit_oid", "position_id", "stop_order_qty",
      "limit_order_qty" }

\* self.<name> = value on the slotted instance
setattr(t, name, value) ==
    IF name \in Slots /\ name \in DOMAIN t
    THEN Result([t EXCEPT ![name] = value], NoReturn, NoError, <<>>)
    ELSE Result(t, NoReturn, AttributeError, <<>>)

\* two attribute assignments in sequence; the second is skipped if the first raises
setattr2(t, name1, name2, value) ==
    LET r == setattr(t, name1, value)
    IN  IF r.raised # NoError THEN r ELSE setattr(r.t, name2, value)

\* broker calls
CancelCall(oid) == [call |-> "cancel_order", id |-> oid]
CreateCall(ref, order_type, direction, quantity, price, reduce_only) ==
    [call |-> "create_order", ref |-> ref, order_type |-> order_type,
     direction |-> direction, quantity |-> quantity, price |-> price,
     reduce_only |-> reduce_only]

\* StrategyIndMarginTrade.open; ref is the reference id issued by
\* set_ref_order_id, ok the answer of create_order, position_id and
\* created_time what create_order wrote into the order
open(t, direction, order_type, order_price, quantity, take_profit, stop_loss, ref, ok, position_id, created_time) ==
    LET t1 == [t EXCEPT !.create_ref_oid = ref, !.dir = direction,
                        !.op = order_price, !.oq = quantity,
                        !.tp = take_profit, !.sl = stop_loss,
                        !.entry_maker = ~is_market(order_type)]
        call == CreateCall(ref, order_type, direction, quantity, order_price, FALSE)
    IN  IF ok
        THEN Result([t1 EXCEPT !.position_id = position_id,
                               !.eot = IF t1.eot = 0 /\ created_time > 0
                                       THEN created_time ELSE t1.eot],
                    True, NoError, <<call>>)
        ELSE Result([t1 EXCEPT !.create_ref_oid = None], False, NoError, <<call>>)

\* -------------------------------------------------------- order_signal
\* FilledQty without the subtraction of the quantity already filled
FilledQty_Cumulative(data, q) ==
    IF data.cum # None /\ data.cum > 0 THEN data.cum
    ELSE IF data.filled # None /\ data.filled > 0 THEN data.filled
    ELSE 0

\* the quantity of a TRADED event that is new to the side whose filled
\* quantity is q: from cumulative-filled when present and positive, else from
\* filled, else 0
FilledQty(data, q) ==
    IF data.cum # None /\ data.cum > 0 THEN data.cum - q
    ELSE IF data.filled # None /\ data.filled > 0 THEN data.filled
    ELSE 0

\* the filled quantity after the event: cumulative-filled when present,
\* else increased by the event's quantity
CumulatedQty(data, q, filled) ==
    IF data.cum # None THEN data.cum ELSE q + filled

\* the profit/loss rate after adding an exit of `filled` at exec_price,
\* over the entry executed quantity; <<ok, pl>>
AddProfitLoss(t, exec_price, filled) ==
    LET cost == RMul(t.aep, Num(t.e))
        got == Num(exec_price * filled)
    IN  IF t.dir > 0
        THEN IF RIsZero(cost) THEN <<FALSE, t.pl>>
             ELSE <<TRUE, RAdd(t.pl, RDiv(RSub(got, cost), cost))>>
        ELSE IF t.dir < 0
        THEN IF RIsZero(cost) THEN <<FALSE, t.pl>>
             ELSE <<TRUE, RAdd(t.pl, RDiv(RSub(cost, got), cost))>>
        ELSE <<TRUE, t.pl>>

\* FilledState that takes any filled quantity for a complete fill
FilledState_AnyFill(q, oq) ==
    IF q > 0 THEN STATE_FILLED ELSE STATE_PARTIALLY_FILLED

\* AveragePrice as the plain mean of the two prices
AveragePrice_Unweighted(avg, q, exec_price, filled) ==
    RDiv(RAdd(avg, Num(exec_price)), Num(2))

\* the average price of q at avg and filled at exec_price
AveragePrice(avg, q, exec_price, filled) ==
    RDiv(RAdd(RMul(avg, Num(q)), Num(exec_price * filled)), Num(q + filled))

\* the state of a side whose filled quantity is q
FilledState(q, oq) ==
    IF q >= oq THEN STATE_FILLED ELSE STATE_PARTIALLY_FILLED

\* SIGNAL_ORDER_OPENED
OrderOpenedSignal(t, data, ref_order_id) ==
    IF ref_order_id = t.create_ref_oid
    THEN [t EXCEPT !.create_oid = data.id,
                   !.eot = data.timestamp,
                   !.sl = IF data.sl # None /\ data.sl # 0 THEN data.sl ELSE @,
                   !.tp = IF data.tp # None /\ data.tp # 0 THEN data.tp ELSE @,
                   !.entry_state = STATE_OPENED]
    ELSE IF ref_order_id = t.stop_ref_oid
    THEN [t EXCEPT !.stop_oid = data.id, !.xot = data.timestamp]
    ELSE IF ref_order_id = t.limit_ref_oid
    THEN [t EXCEPT !.limit_oid = data.id, !.xot = data.timestamp]
    ELSE t

\* SIGNAL_ORDER_DELETED and SIGNAL_ORDER_CANCELED: the order is no longer
\* active; state is the entry state the signal gives
OrderEndedSignal(t, oid, state) ==
    IF oid = t.create_oid
    THEN [t EXCEPT !.create_ref_oid = None, !.create_oid = None,
                   !.entry_state = state]
    ELSE IF oid = t.limit_oid
    THEN [t EXCEPT !.limit_ref_oid = None, !.limit_oid = None]
    ELSE IF oid = t.stop_oid
    THEN [t EXCEPT !.stop_ref_oid = None, !.stop_oid = None]
    ELSE t

\* SIGNAL_ORDER_TRADED on the entry order
EntryTradedSignal(t, data) ==
    LET filled == FilledQty(data, t.e)
        hasAvg == data.avg # None /\ data.avg > 0
        hasExec == data.exec # None /\ data.exec > 0
        divZero == ~hasAvg /\ hasExec /\ t.e + filled = 0
        aep == IF hasAvg THEN Num(data.avg)
               ELSE IF hasExec
               THEN AveragePrice(t.aep, t.e, data.exec, filled)
               ELSE Num(t.op)
        e == CumulatedQty(data, t.e, filled)
    IN  IF divZero THEN Result(t, NoReturn, ZeroDivisionError, <<>>)
        ELSE IF FilledState(e, t.oq) = STATE_FILLED
        THEN \* the venue sends no ORDER_DELETED: cleanup here
             setattr2([t EXCEPT !.aep = aep, !.e = e, !.entry_state = STATE_FILLED],
                      "_create_oid", "_create_ref_oid", None)
        ELSE Result([t EXCEPT !.aep = aep, !.e = e,
                              !.entry_state = STATE_PARTIALLY_FILLED],
                    NoReturn, NoError, <<>>)

\* SIGNAL_ORDER_TRADED on the limit or the stop order
ExitTradedSignal(t, data) ==
    LET filled == FilledQty(data, t.x)
        hasAvg == data.avg # None /\ data.avg > 0
        hasExec == data.exec # None /\ data.exec > 0
        \* recompute profit-loss from avg-price
        plAvg == IF t.dir > 0 THEN RDiv(RSub(Num(data.avg), t.aep), t.aep)
                 ELSE IF t.dir < 0 THEN RDiv(RSub(t.aep, Num(data.avg)), t.aep)
                 ELSE t.pl
        plExec == AddProfitLoss(t, data.exec, filled)
        divZero == IF hasAvg THEN t.dir # 0 /\ RIsZero(t.aep)
                   ELSE hasExec /\ (~plExec[1] \/ t.x + filled = 0)
        \* what the handler had assigned when the division raised
        tz == IF ~hasAvg /\ hasExec /\ plExec[1] THEN [t EXCEPT !.pl = plExec[2]] ELSE t
        pl == IF hasAvg THEN plAvg ELSE IF hasExec THEN plExec[2] ELSE t.pl
        axp == IF hasAvg THEN Num(data.avg)
               ELSE IF hasExec
               THEN AveragePrice(t.axp, t.x, data.exec, filled)
               ELSE t.axp
        x == CumulatedQty(data, t.x, filled)
    IN  IF divZero THEN Result(tz, NoReturn, ZeroDivisionError, <<>>)
        ELSE IF FilledState(x, t.oq) = STATE_FILLED
        THEN \* the venue sends no ORDER_DELETED: cleanup here
             LET t1 == [t EXCEPT !.pl = pl, !.axp = axp, !.x = x,
                                 !.exit_state = STATE_FILLED]
             IN  IF data.id = t.limit_oid
                 THEN setattr2(t1, "_limit_oid", "_limit_ref_oid", None)
                 ELSE IF data.id = t.stop_oid
                 THEN setattr2(t1, "_stop_oid", "_stop_ref_oid", None)
                 ELSE Result(t1, NoReturn, NoError, <<>>)
        ELSE Result([t EXCEPT !.pl = pl, !.axp = axp, !.x = x,
                              !.exit_state = STATE_PARTIALLY_FILLED],
                    NoReturn, NoError, <<>>)

\* StrategyIndMarginTrade.order_signal; for ORDER_DELETED and ORDER_CANCELED
\* the data is the order id, carried here in data.id
order_signal(t, signal_type, data, ref_order_id) ==
    IF signal_type = SIGNAL_ORDER_OPENED
    THEN Result(OrderOpenedSignal(t, data, ref_order_id), NoReturn, NoError, <<>>)
    ELSE IF signal_type = SIGNAL_ORDER_DELETED
    THEN Result(OrderEndedSignal(t, data.id, STATE_DELETED), NoReturn, NoError, <<>>)
    ELSE IF signal_type = SIGNAL_ORDER_CANCELED
    THEN Result(OrderEndedSignal(t, data.id, STATE_CANCELED), NoReturn, NoError, <<>>)
    ELSE IF signal_type = SIGNAL_ORDER_UPDATED
    THEN Result(t, NoReturn, NoError, <<>>)
    ELSE IF signal_type = SIGNAL_ORDER_TRADED
    THEN IF data.id = t.create_oid THEN EntryTradedSignal(t, data)
         ELSE IF data.id = t.limit_oid \/ data.id = t.stop_oid
         THEN ExitTradedSignal(t, data)
         ELSE Result(t, NoReturn, NoError, <<>>)
    ELSE Result(t, NoReturn, NoError, <<>>)

\* StrategyIndMarginTrade.position_signal
position_signal(t, signal_type, data, ref_order_id) ==
    IF signal_type = SIGNAL_POSITION_DELETED
    THEN LET t1 == [t EXCEPT !.position_id = None, !.create_oid = None,
                             !.create_ref_oid = None]
             \* mean fill the rest
             filled == t1.e - t1.x
             hasExec == data.exec # None /\ data.exec > 0
             plExec == AddProfitLoss(t1, data.exec, filled)
         IN  IF t1.x < t1.e /\ hasExec
             THEN IF plExec[1]
                  THEN Result([t1 EXCEPT !.pl = plExec[2], !.exit_state = STATE_FILLED],
                              NoReturn, NoError, <<>>)
                  ELSE Result(t1, NoReturn, ZeroDivisionError, <<>>)
             ELSE Result([t1 EXCEPT !.exit_state = STATE_FILLED], NoReturn, NoError, <<>>)
    ELSE Result(t, NoReturn, NoError, <<>>)

\* StrategyIndMarginTrade.is_target_order
is_target_order(t, order_id, ref_order_id) ==
    IF order_id # None /\ (order_id = t.create_oid \/ order_id = t.stop_oid
                           \/ order_id = t.limit_oid)
    THEN True
    ELSE IF ref_order_id # None /\ (ref_order_id = t.create_ref_oid
                                    \/ ref_order_id = t.stop_ref_oid
                                    \/ ref_order_id = t.limit_ref_oid)
    THEN True
    ELSE False

\* StrategyIndMarginTrade.is_target_position: True, or None when no return
\* statement is reached
is_target_position(t, position_id, ref_order_id) ==
    IF position_id # None /\ position_id = t.position_id THEN True
    ELSE IF ref_order_id # None /\ ref_order_id = t.create_ref_oid THEN True
    ELSE NoReturn

\* StrategyTrade.is_active: False, True, or None when no return statement
\* is reached
is_active(t) ==
    IF t.exit_state = STATE_FILLED THEN False
    ELSE IF t.e > 0 /\ t.x < t.e THEN True
    ELSE NoReturn

\* truth value of a returned object in a condition
Truthy(v) == v = True

can_delete_EntryOnly(t) ==
    IF t.entry_state = STATE_FILLED /\ t.exit_state = STATE_FILLED THEN True
    ELSE IF t.e >= t.oq THEN True
    ELSE IF t.e > 0 /\ t.x < t.e THEN False
    ELSE IF t.entry_state = STATE_NEW \/ t.entry_state = STATE_OPENED THEN False
    ELSE IF t.e > 0 /\ (t.exit_state = STATE_NEW \/ t.exit_state = STATE_OPENED) THEN False
    ELSE True

\* StrategyTrade.can_delete
can_delete(t) ==
    IF t.entry_state = STATE_FILLED /\ t.exit_state = STATE_FILLED THEN True
    ELSE IF t.e >= t.oq /\ (t.x >= t.e \/ t.x >= t.oq) THEN True
    ELSE IF t.e > 0 /\ t.x < t.e THEN False
    ELSE IF t.entry_state = STATE_NEW \/ t.entry_state = STATE_OPENED THEN False
    ELSE IF t.e > 0 /\ (t.exit_state = STATE_NEW \/ t.exit_state = STATE_OPENED) THEN False
    ELSE True

\* StrategyTrade.is_closed
is_closed(t) == t.exit_state = STATE_FILLED /\ t.x >= t.e

\* StrategyIndMarginTrade.is_closing, as a truth value
is_closing(t) ==
    \/ t.limit_ref_oid # None \/ t.stop_ref_oid # None
    \/ t.exit_state = STATE_OPENED
    \/ t.exit_state = STATE_PARTIALLY_FILLED

\* StrategyTrade.has_operations
has_operations_Never(t) == FALSE

has_operations(t) == t.operations > 0

\* StrategyTrade.is_opened
is_opened(t) == t.entry_state = STATE_OPENED

\* StrategyTrade.is_entry_timeout
is_entry_timeout(t, timestamp, timeout) ==
    /\ t.entry_state = STATE_OPENED
    /\ t.e = 0
    /\ t.eot > 0
    /\ (timestamp - t.eot) >= timeout

\* StrategyTrade.is_valid
is_valid(t, timestamp, validity) ==
    /\ t.entry_state = STATE_OPENED \/ t.entry_state = STATE_PARTIALLY_FILLED
    /\ t.e < t.oq
    /\ (timestamp - t.eot) <= validity

\* ---------------------------------------------- operations of the trader
\* In the operations below `co` holds the broker's answers to cancel_order
\* for the entry, stop and limit order, `ref` the reference id issued by
\* set_ref_order_id, `ok` the answer of create_order and `order_id` the id
\* create_order wrote into the order.

\* StrategyIndMarginTrade.cancel_open
cancel_open(t, co) ==
    IF t.create_oid # None
    THEN IF co.create
         THEN Result([t EXCEPT !.create_ref_oid = None, !.create_oid = None,
                               !.entry_state = STATE_CANCELED],
                     True, NoError, <<CancelCall(t.create_oid)>>)
         ELSE Result(t, False, NoError, <<CancelCall(t.create_oid)>>)
    ELSE Result(t, True, NoError, <<>>)

CancelRefused_Never(oid, answer) == FALSE

\* the else branch of `if trader.cancel_order(oid)` under `if oid`: the child
\* order exists and the broker refused to cancel it
CancelRefused(oid, answer) == oid # None /\ ~answer

\* StrategyIndMarginTrade.modify_take_profit
modify_take_profit(t, price, co, ref, ok, order_id) ==
    LET cancels == IF t.limit_oid # None THEN <<CancelCall(t.limit_oid)>> ELSE <<>>
        t1 == IF t.limit_oid # None /\ co.limit
              THEN [t EXCEPT !.limit_ref_oid = None, !.limit_oid = None,
                             !.limit_order_qty = 0]
              ELSE t
        quantity == t1.e - t1.x
        call == CreateCall(ref, ORDER_TAKE_PROFIT_LIMIT, t1.dir, quantity, price, FALSE)
        t2 == [t1 EXCEPT !.limit_ref_oid = ref,
                         !.exit_maker = ~is_market(ORDER_TAKE_PROFIT_LIMIT)]
    IN  IF CancelRefused(t.limit_oid, co.limit) THEN Result(t, False, NoError, cancels)
        ELSE IF t1.e = t1.x THEN Result(t1, True, NoError, cancels)
        ELSE IF t1.e < t1.x THEN Result(t1, False, NoError, cancels)
        ELSE IF t1.e > 0
        THEN IF ok
             THEN Result([t2 EXCEPT !.limit_oid = order_id,
                                    !.limit_order_qty = quantity,
                                    !.tp = price],
                         True, NoError, cancels \o <<call>>)
             ELSE Result([t2 EXCEPT !.limit_ref_oid = None, !.limit_order_qty = 0],
                         False, NoError, cancels \o <<call>>)
        ELSE Result(t1, False, NoError, cancels)

\* StrategyIndMarginTrade.modify_stop_loss
modify_stop_loss(t, price, co, ref, ok, order_id) ==
    LET cancels == IF t.stop_oid # None THEN <<CancelCall(t.stop_oid)>> ELSE <<>>
        t1 == IF t.stop_oid # None /\ co.stop
              THEN [t EXCEPT !.stop_ref_oid = None, !.stop_oid = None]
              ELSE t
        quantity == t1.e - t1.x
        call == CreateCall(ref, ORDER_STOP, t1.dir, quantity, price, TRUE)
        t2 == [t1 EXCEPT !.stop_ref_oid = ref,
                         !.exit_maker = ~is_market(ORDER_STOP)]
    IN  IF CancelRefused(t.stop_oid, co.stop) THEN Result(t, False, NoError, cancels)
        ELSE IF t1.e = t1.x THEN Result(t1, True, NoError, cancels)
        ELSE IF t1.e < t1.x THEN Result(t1, False, NoError, cancels)
        ELSE IF t1.e > 0
        THEN IF ok
             THEN Result([t2 EXCEPT !.stop_oid = order_id,
                                    !.stop_order_qty = quantity,
                                    !.sl = price],
                         True, NoError, cancels \o <<call>>)
             ELSE Result([t2 EXCEPT !.stop_ref_oid = None, !.stop_order_qty = 0],
                         False, NoError, cancels \o <<call>>)
        ELSE Result(t1, False, NoError, cancels)

close_direction_Same(t) == t.dir

\* the direction of the closing order: order.direction = -self.dir
close_direction(t) == -t.dir

\* StrategyIndMarginTrade.close
close(t, co, ref, ok) ==
    LET c1 == IF t.create_oid # None THEN <<CancelCall(t.create_oid)>> ELSE <<>>
        t1 == IF t.create_oid # None /\ co.create
              THEN [t EXCEPT !.create_ref_oid = None, !.create_oid = None,
                             !.entry_state = STATE_CANCELED]
              ELSE t
        c2 == IF t1.stop_oid # None THEN <<CancelCall(t1.stop_oid)>> ELSE <<>>
        t2 == IF t1.stop_oid # None /\ co.stop
              THEN [t1 EXCEPT !.stop_ref_oid = None, !.stop_oid = None]
              ELSE t1
        c3 == IF t2.limit_oid # None THEN <<CancelCall(t2.limit_oid)>> ELSE <<>>
        t3 == IF t2.limit_oid # None /\ co.limit
              THEN [t2 EXCEPT !.limit_ref_oid = None]
              ELSE t2
        cancels == c1 \o c2 \o c3
        quantity == t3.e - t3.x
        call == CreateCall(ref, ORDER_MARKET, close_direction(t3), quantity, None, FALSE)
        t4 == [t3 EXCEPT !.stop_ref_oid = ref,
                         !.exit_maker = ~is_market(ORDER_MARKET)]
    IN  IF t3.e = t3.x THEN Result(t3, True, NoError, cancels)
        ELSE IF t3.e < t3.x THEN Result(t3, False, NoError, cancels)
        ELSE IF ok THEN Result(t4, True, NoError, cancels \o <<call>>)
        ELSE Result([t4 EXCEPT !.stop_ref_oid = None], False, NoError,
                    cancels \o <<call>>)

\* a call of strategy.notify_order
NotifyCall(trade_id, phase) == [call |-> "notify_order", id |-> trade_id, phase |-> phase]

\* CryptoAlphaStrategyTrader.process_exit; the estimated profit/loss rate
\* divides by the entry price of the trade
process_exit(t, exit_price, activity, co, ref, ok) ==
    IF ~activity THEN Result(t, NoReturn, NoError, <<>>)
    ELSE LET r == close(t, co, ref, ok)
         IN  IF RIsZero(r.t.aep)
             THEN Result(r.t, NoReturn, ZeroDivisionError, r.calls)
             ELSE Result(r.t, NoReturn, NoError,
                         r.calls \o <<NotifyCall(r.t.id, "exit")>>)

\* the stop-loss update of process: the ATR stop of the parent timeframe
\* replaces a lower stop when the trade has none or the price is above the
\* entry price
StopLossUpdate_Always(t, atr_sl, last_price) == atr_sl

StopLossUpdate(t, atr_sl, last_price) ==
    IF /\ (t.sl = 0 \/ t.sl = None) \/ RSign(RSub(Num(last_price), t.aep)) > 0
       /\ atr_sl > t.sl
    THEN atr_sl
    ELSE t.sl

\* CryptoAlphaStrategyTrader.process, the body of the loop over the trades
\* for trade t; exit_price is the price of the retained exit signal or None
process(t, timestamp, exit_price, atr_sl, last_price, activity, co, ref, ok) ==
    IF t.user_trade /\ has_operations(t)
    THEN Result(t, NoReturn, NoError, <<>>)
    ELSE IF is_entry_timeout(t, timestamp, t.timeframe)
    THEN Result(cancel_open(t, co).t, NoReturn, NoError, cancel_open(t, co).calls)
    ELSE IF is_opened(t) /\ ~is_valid(t, timestamp, t.timeframe)
    THEN Result(t, NoReturn, NoError, <<>>)
    ELSE IF ~Truthy(is_active(t)) \/ is_closing(t) \/ is_closed(t)
    THEN Result(t, NoReturn, NoError, <<>>)
    ELSE LET t1 == [t EXCEPT !.sl = StopLossUpdate(t, atr_sl, last_price)]
         IN  IF exit_price # None
             THEN process_exit(t1, exit_price, activity, co, ref, ok)
             ELSE Result(t1, NoReturn, NoError, <<>>)

PositionId == 1

LONG == 1           \* Order.LONG
MinNotional == 2    \* the market's min_notional, in price units

\* calls of the trader on its own trade set
AddTradeCall(trade_id) == [call |-> "add_trade", id |-> trade_id]
RemoveTradeCall(trade_id) == [call |-> "remove_trade", id |-> trade_id]

\* StrategyTrader.add_trade: the trade joins the trade set under a new id
add_trade(tr, t) ==
    [tr EXCEPT !.trades = Append(@, [t EXCEPT !.id = tr.next_id]),
               !.next_id = @ + 1]

\* StrategyTrader.remove_trade: the trade leaves the trade set
remove_trade(tr, trade_id) ==
    [tr EXCEPT !.trades = SelectSeq(@, LAMBDA t : t.id # trade_id)]

EntryAllowed_AnyTimeframe(tr, timestamp, direction, timeframe) ==
    IF tr.trades # <<>>
    THEN /\ ~(Len(tr.trades) >= tr.max_trades)
         /\ ~(/\ tr.trades[Len(tr.trades)].dir = direction
              /\ (timestamp - tr.trades[Len(tr.trades)].eot) < timeframe)
    ELSE TRUE

Rollback_Never(tr, trade_id, opened) == tr

\* process_entry after trade.open: `else: self.remove_trade(trade)`
Rollback(tr, trade_id, opened) ==
    IF opened THEN tr ELSE remove_trade(tr, trade_id)

\* process_entry: whether the trades the trader owns allow a new entry
EntryAllowed(tr, timestamp, direction, timeframe) ==
    IF tr.trades # <<>>
    THEN /\ ~(Len(tr.trades) >= tr.max_trades)
         /\ \A i \in 1..Len(tr.trades) : tr.trades[i].timeframe # timeframe
         /\ ~(/\ tr.trades[Len(tr.trades)].dir = direction
              /\ (timestamp - tr.trades[Len(tr.trades)].eot) < timeframe)
    ELSE TRUE

TooSmall_Never(order_quantity, price, min_notional) == FALSE

\* process_entry: the order has no quantity or is worth less than the
\* market's min_notional
TooSmall(order_quantity, price, min_notional) ==
    order_quantity <= 0 \/ order_quantity * price < min_notional

\* CryptoAlphaStrategyTrader.process_entry; price is the signal price with
\* the spread, quantity what the market's adjust_quantity gave for the
\* trader's funds (0 without funds), min_notional the market's smallest
\* order value; the result holds the trader afterwards and the calls made
process_entry(tr, timestamp, price, take_profit, stop_loss, timeframe, quantity, min_notional, ref, ok, created_time) ==
    LET do_order == /\ tr.activity
                    /\ ~TooSmall(quantity, price, min_notional)
                    /\ EntryAllowed(tr, timestamp, LONG, timeframe)
        tr1 == add_trade(tr, [NewTrade EXCEPT !.timeframe = timeframe])
        n == Len(tr1.trades)
        id == tr1.trades[n].id
        r == open(tr1.trades[n], LONG, ORDER_LIMIT, price, quantity,
                  take_profit, stop_loss, ref, ok, PositionId, created_time)
        tr2 == [tr1 EXCEPT !.trades[n] = r.t]
    IN  IF do_order
        THEN [trader |-> Rollback(tr2, id, r.ret = True),
              calls |-> <<AddTradeCall(id)>> \o r.calls
                        \o (IF r.ret = True THEN <<NotifyCall(id, "entry")>>
                            ELSE <<RemoveTradeCall(id)>>)]
        ELSE [trader |-> tr, calls |-> <<NotifyCall(-1, "entry")>>]

\* ---------------------------------------------------------- persistence
\* StrategyTrade.trade_type_to_str
trade_type_to_str(t) ==
    IF t.trade_type = TRADE_ASSET THEN "asset"
    ELSE IF t.trade_type = TRADE_MARGIN THEN "margin"
    ELSE IF t.trade_type = TRADE_MARGIN THEN "indisible-margin"
    ELSE "undefined"

\* StrategyTrade.dumps; 'version' holds the classmethod itself, which is
\* not called
StrategyTrade_dumps(t) ==
    [version |-> "StrategyTrade.version", id |-> t.id, type |-> trade_type_to_str(t),
     entry_state |-> t.entry_state, exit_state |-> t.exit_state,
     timeframe |-> t.timeframe, user_trade |-> t.user_trade,
     avg_entry_price |-> t.aep, avg_exit_price |-> t.axp,
     take_profit_price |-> t.tp, stop_loss_price |-> t.sl,
     direction |-> t.dir, entry_open_time |-> t.eot, exit_open_time |-> t.xot,
     order_qty |-> t.oq, filled_entry_qty |-> t.e, filled_exit_qty |-> t.x,
     profit_loss_rate |-> t.pl,
     statistics |-> [entry_maker |-> t.entry_maker, exit_maker |-> t.exit_maker]]

\* StrategyIndMarginTrade.dumps
dumps(t) ==
    StrategyTrade_dumps(t) @@
    [create_ref_oid |-> t.create_ref_oid, stop_ref_oid |-> t.stop_ref_oid,
     limit_ref_oid |-> t.limit_ref_oid, create_oid |-> t.create_oid,
     stop_oid |-> t.stop_oid, limit_oid |-> t.limit_oid,
     position_id |-> t.position_id, stop_order_qty |-> t.stop_order_qty,
     limit_order_qty |-> t.limit_order_qty]

\* StrategyTrade.loads(self, data), called with the arguments args
StrategyTrade_loads(t, args) ==
    IF Len(args) # 1
    THEN Result(t, NoReturn, TypeError, <<>>)
    ELSE LET data == args[1]
         IN  Result([t EXCEPT !.id = data.id, !.trade_type = data.type,
                              !.entry_state = data.entry_state,
                              !.exit_state = data.exit_state,
                              !.timeframe = data.timeframe,
                              !.user_trade = data.user_trade,
                              !.operations = 0,
                              !.dir = data.direction, !.oq = data.order_qty,
                              !.tp = data.take_profit_price,
                              !.sl = data.stop_loss_price,
                              !.aep = data.avg_entry_price,
                              !.axp = data.avg_exit_price,
                              !.eot = data.entry_open_time,
                              !.xot = data.exit_open_time,
                              !.e = data.filled_entry_qty,
                              !.x = data.filled_exit_qty,
                              !.pl = data.profit_loss_rate,
                              !.entry_maker = data.statistics.entry_maker,
                              !.exit_maker = data.statistics.exit_maker],
                    True, NoError, <<>>)

\* StrategyIndMarginTrade.loads: it hands data and strategy_service to
\* StrategyTrade.loads
loads(t, data, strategy_service) ==
    LET r == StrategyTrade_loads(t, <<data, strategy_service>>)
    IN  IF r.raised # NoError THEN r
        ELSE IF r.ret # True THEN Result(r.t, False, NoError, <<>>)
        ELSE Result([r.t EXCEPT !.create_ref_oid = data.create_ref_oid,
                                !.stop_ref_oid = data.stop_ref_oid,
                                !.limit_ref_oid = data.limit_ref_oid,
                                !.create_oid = data.create_oid,
                                !.stop_oid = data.stop_oid,
                                !.limit_oid = data.limit_oid,
                                !.position_id = data.position_id,
                                !.stop_order_qty = data.stop_order_qty,
                                !.limit_order_qty = data.limit_order_qty],
                    True, NoError, <<>>)

\* ------------------------------------------------------------- the worker
MaxCalls == 4     \* calls other threads make on the worker
MaxRaises == 2    \* exceptions the hooks of the worker raise

\* Runnable.__init__, with the thread not started and no start() under way.
\* thread is the place of the worker thread in run(), caller the place of
\* the thread that called start(), ret what start() returned last. History:
\* last (the last call made on the worker), aborted (pre_run raised),
\* iter (the hooks called in the iteration under way), iter_play (the
\* playing flag as that iteration read it), unanswered (a ping() was made
\* and no pong emitted since), post_runs (calls of post_run), stopped
\* (stop() has set running to false), loop_raised (a hook of the loop
\* raised), resumed (an iteration began after a hook of the loop raised).
NewWorker ==
    [ running |-> FALSE, playpause |-> FALSE, ping |-> FALSE, error |-> NoError,
      thread |-> "unstarted", caller |-> "idle", ret |-> NoReturn,
      calls |-> MaxCalls, raises |-> MaxRaises, last |-> "none",
      aborted |-> FALSE, iter |-> <<>>, iter_play |-> FALSE,
      unanswered |-> FALSE, post_runs |-> 0, stopped |-> FALSE,
      loop_raised |-> FALSE, resumed |-> FALSE ]

\* Runnable.start, up to the call of Thread.start
start_test(w) ==
    IF ~w.running
    THEN [w EXCEPT !.running = TRUE, !.caller = "thread_start", !.ret = NoReturn]
    ELSE [w EXCEPT !.ret = False]

\* Runnable.start: Thread.start(), which raises RuntimeError when the
\* thread was started before
start_thread(w) ==
    IF w.thread = "unstarted"
    THEN [w EXCEPT !.thread = "pre_run", !.caller = "set_play"]
    ELSE [w EXCEPT !.running = FALSE, !.ret = False, !.caller = "idle"]

\* Runnable.start, after Thread.start() has returned
start_play(w) ==
    [w EXCEPT !.playpause = TRUE, !.ret = True, !.caller = "idle"]

\* Runnable.play and Runnable.pause
playpause(w, value) ==
    IF w.running THEN [w EXCEPT !.playpause = value] ELSE w

\* Runnable.stop
stop(w) ==
    IF w.running THEN [w EXCEPT !.running = FALSE, !.stopped = TRUE] ELSE w

\* Runnable.ping
ping(w) ==
    [w EXCEPT !.ping = TRUE, !.unanswered = TRUE]

\* Runnable.pong
pong(w) ==
    [w EXCEPT !.unanswered = FALSE]

LoopExcept_Terminates(w, hook) ==
    [w EXCEPT !.error = hook, !.thread = "post_run", !.loop_raised = TRUE]

\* Runnable.run: the handler of an exception raised inside the loop
LoopExcept(w, hook) ==
    [w EXCEPT !.error = hook, !.thread = "outer", !.loop_raised = TRUE]

AfterHook_UpdateFirst(hook) ==
    IF hook = "update" THEN "pre_update"
    ELSE IF hook = "pre_update" THEN "post_update"
    ELSE "test_ping"

\* Runnable.__process_once: what follows a hook that returned
AfterHook(hook) ==
    IF hook = "pre_update" THEN "update"
    ELSE IF hook = "update" THEN "post_update"
    ELSE "test_ping"

\* the places of the worker thread inside the loop of run()
InLoop ==
    {"outer", "inner", "test_play", "pre_update", "update", "post_update",
     "sleep", "test_ping", "pong", "clear_ping"}

\* ------------------------------------------------ the watcher service
MaxWatchers == 2     \* watcher names of the configuration
MaxStarts == 2       \* calls of WatcherService.start

WatcherNames == 1..MaxWatchers

\* the watchers configuration: for each name other than "default", whether
\* the profile enables it and whether its status is "load"
WatcherConfigs == [WatcherNames -> [enabled : BOOLEAN, load : BOOLEAN]]

\* a watcher as its constructor leaves it: Runnable.__init__
NewWatcher(k) == [name |-> k, running |-> FALSE, thread |-> "unstarted"]

\* WatcherService.__init__, with no terminate() under way (at, i: the
\* place of the thread that called terminate). History: instances (the
\* watchers instantiated for each name), joined (whether terminate has
\* waited for a thread)
NewService ==
    [ config |-> [k \in WatcherNames |-> [enabled |-> TRUE, load |-> TRUE]],
      watchers |-> <<>>, at |-> "idle", i |-> 0,
      starts |-> MaxStarts, raises |-> MaxRaises,
      instances |-> [k \in WatcherNames |-> 0], joined |-> FALSE ]

\* self._watchers.get(k): the index of name k in the registry, 0 for None
get(watchers, k) ==
    IF \E n \in 1..Len(watchers) : watchers[n].name = k
    THEN CHOOSE n \in 1..Len(watchers) : watchers[n].name = k
    ELSE 0

AlreadyStarted_Never(sv, k) == FALSE

\* WatcherService.start: self._watchers.get(k) is not None
AlreadyStarted(sv, k) == get(sv.watchers, k) # 0

\* Runnable.start of a watcher, Thread.start() succeeding (ok) or raising
watcher_start(w, ok) ==
    IF ~w.running
    THEN IF ok THEN [w |-> [w EXCEPT !.running = TRUE, !.thread = "pre_run"], ret |-> True]
         ELSE [w |-> w, ret |-> False]
    ELSE [w |-> w, ret |-> False]

\* Runnable.stop of a watcher
watcher_stop(w) == IF w.running THEN [w EXCEPT !.running = FALSE] ELSE w

\* Thread.is_alive of a watcher
is_alive(w) == w.thread \in {"pre_run", "loop"}

\* WatcherService.start: the body of the loop for name k
start_one(sv, k, ok) ==
    IF ~sv.config[k].enabled THEN sv
    ELSE IF AlreadyStarted(sv, k) THEN sv
    ELSE IF ~sv.config[k].load THEN sv
    ELSE LET r == watcher_start(NewWatcher(k), ok)
             made == [sv EXCEPT !.instances[k] = @ + 1]
         IN  IF r.ret = True
             THEN [made EXCEPT !.watchers = Append(@, r.w)]
             ELSE made

\* WatcherService.start: the loop over the names from k on
RECURSIVE start_from(_, _, _)
start_from(sv, k, oks) ==
    IF k > MaxWatchers THEN sv
    ELSE start_from(start_one(sv, k, oks[k]), k + 1, oks)

\* ------------------------------------------------------------ the system
VARIABLES
    venue,      \* how the venue's events tell quantities and prices
    pc,         \* "new": trade created; "live": opened and owned by the trader;
                \* "removed": the entry order was refused and the trade dropped
    trade,      \* the StrategyIndMarginTrade instance
    orders,     \* the broker's orders of the trade; order n has id n and reference id n
    position,   \* the broker's position quantity in the direction of the trade
    raised,     \* the exception the last call on the trade ended with
    events,     \* events the broker may still send
    ops,        \* operations the trader may still make on the opened trade
    replays,    \* duplicate event deliveries the broker may still make
    dup,        \* side of the order whose event was last delivered twice
    hist,       \* entry fills applied so far (history)
    done,       \* the operation of the trader made in the last step: what it
                \* returned and the broker calls it made (none after an event)
    now,        \* the timestamp of the trader's last process call
    trader,     \* the strategy trader: its activity flag, max_trades and trades
    worker,     \* a Runnable: its flags, its thread and a caller of start()
    service     \* the WatcherService: its configuration and its registry

vars == <<venue, pc, trade, orders, position, raised, events, ops, replays, dup, hist, done, now, trader, worker, service>>

\* no operation was made in the last step
NotDone == [op |-> "none", ret |-> NoReturn, calls |-> <<>>]

\* operation op returned r
Done(op, r) == [op |-> op, ret |-> r.ret, calls |-> r.calls]

\* CryptoAlphaStrategyTrader.__init__: max_trades from the parameters, no
\* trade yet; activity is the flag the user switches trading with;
\* entry_id and entry_time are history: the trade the trader opened last
\* and the time of the process_entry call that opened it
\* threading.RLock(): no owner
NoLock == [owner |-> "none", count |-> 0]

\* the local variables of process and process_entry before a call
NoEntry ==
    [timestamp |-> 0, has_entry |-> FALSE, timeframe |-> 0, quantity |-> 0,
     price |-> 0, do_order |-> FALSE, id |-> 0, ref |-> 0]

\* last_filter_cache is the time, the accept and the compute of the last
\* evaluation of filter_market; filtered is history: filter_market was
\* called. mutex is the reentrant lock of the trader, thread the place of
\* the worker thread in process and process_entry, entry their local
\* variables, callback the place of the broker callback thread and raises
\* the exceptions calls made under the lock may still raise.
NewTrader(max_trades, activity) ==
    [max_trades |-> max_trades, activity |-> activity, trades |-> <<>>, next_id |-> 1,
     entry_id |-> 0, entry_time |-> 0,
     last_filter_cache |-> <<0, FALSE, FALSE>>, filtered |-> FALSE,
     mutex |-> NoLock, thread |-> "idle", entry |-> NoEntry,
     callback |-> [at |-> "idle", oid |-> None], raises |-> MaxRaises]

\* Runnable.lock: whether the thread who gets the lock now
CanLock(m, who) == m.owner \in {"none", who}

\* Runnable.lock, for a thread that gets the lock
lock(m, who) == [owner |-> who, count |-> m.count + 1]

\* Runnable.unlock
unlock(m) == IF m.count <= 1 THEN NoLock ELSE [m EXCEPT !.count = @ - 1]

Unwind_Release(m) == NoLock

\* what an exception leaving process, or the method Runnable.mutexed
\* wraps, does to the lock: nothing, there being no try/finally
Unwind(m) == m

open_order_RefAfter(t, direction, order_type, order_price, quantity, take_profit, stop_loss, ref) ==
    [t EXCEPT !.dir = direction, !.op = order_price, !.oq = quantity,
              !.tp = take_profit, !.sl = stop_loss,
              !.entry_maker = ~is_market(order_type)]

\* StrategyIndMarginTrade.open up to the call of create_order
open_order(t, direction, order_type, order_price, quantity, take_profit, stop_loss, ref) ==
    [t EXCEPT !.create_ref_oid = ref, !.dir = direction,
              !.op = order_price, !.oq = quantity,
              !.tp = take_profit, !.sl = stop_loss,
              !.entry_maker = ~is_market(order_type)]

\* StrategyIndMarginTrade.open after create_order has returned ok
open_created(t, ok, position_id, created_time) ==
    IF ok
    THEN Result([t EXCEPT !.position_id = position_id,
                          !.eot = IF t.eot = 0 /\ created_time > 0
                                  THEN created_time ELSE t.eot],
                True, NoError, <<>>)
    ELSE Result([t EXCEPT !.create_ref_oid = None], False, NoError, <<>>)

\* the time filter_market keeps its answer: 60*60 seconds, the unit of time
\* being half an hour here
FilterCacheTime == 2

MinPrice == 2       \* the parameter min-price
MinVol24h == 2      \* the parameter min-vol24h

\* what trader.market gives for a market the trader does not know (None)
NoMarket == [trade |-> "none", price |-> None, vol24h_quote |-> None]

\* the call of the broker filter_market makes
MarketCall == [call |-> "market"]

\* CryptoAlphaStrategyTrader.filter_market, after the test of the cache:
\* the (accept, compute) it finds, has_trader telling whether the strategy
\* has a trader and market being what the trader knows of the market
FilterEvaluation(tr, has_trader, market) ==
    IF ~has_trader THEN <<FALSE, FALSE>>
    ELSE IF market = NoMarket THEN <<FALSE, FALSE>>
    ELSE IF market.trade # "buy-sell" THEN <<FALSE, FALSE>>
    ELSE IF tr.trades = <<>> /\ market.price # None /\ market.price < MinPrice
    THEN <<TRUE, FALSE>>
    ELSE IF tr.trades = <<>> /\ market.vol24h_quote # None
            /\ market.vol24h_quote < MinVol24h
    THEN <<TRUE, FALSE>>
    ELSE <<TRUE, TRUE>>

FilterCached_Never(tr, timestamp) == FALSE

\* CryptoAlphaStrategyTrader.filter_market: whether the cache answers
FilterCached(tr, timestamp) ==
    timestamp - tr.last_filter_cache[1] < FilterCacheTime

\* CryptoAlphaStrategyTrader.filter_market
filter_market(tr, timestamp, has_trader, market) ==
    IF FilterCached(tr, timestamp)
    THEN [trader |-> [tr EXCEPT !.filtered = TRUE],
          ret |-> <<tr.last_filter_cache[2], tr.last_filter_cache[3]>>,
          calls |-> <<>>]
    ELSE LET e == FilterEvaluation(tr, has_trader, market)
         IN  [trader |-> [tr EXCEPT !.last_filter_cache = <<timestamp, e[1], e[2]>>,
                                    !.filtered = TRUE],
              ret |-> e,
              calls |-> IF has_trader THEN <<MarketCall>> ELSE <<>>]


NoData == [id |-> None, timestamp |-> None, sl |-> None, tp |-> None,
           cum |-> None, filled |-> None, avg |-> None, exec |-> None]

Live(n) == n \in 1..Len(orders) /\ orders[n].status \in {"new", "open"}

\* the broker's answers to cancel_order for the orders the trade refers to:
\* it refuses to cancel an order that is no longer live, and may refuse any
CancelAnswers ==
    { co \in [create : BOOLEAN, stop : BOOLEAN, limit : BOOLEAN] :
        /\ co.create => Live(trade.create_oid)
        /\ co.stop => Live(trade.stop_oid)
        /\ co.limit => Live(trade.limit_oid) }

\* the broker's answers to create_order: it accepts at most MaxOrders orders
CreateAnswers == IF Len(orders) < MaxOrders THEN BOOLEAN ELSE {FALSE}

\* the broker's orders after the calls of one operation; every cancel_order
\* in calls whose answer was true withdraws the order, an accepted
\* create_order adds one
AfterCalls(calls, canceled, ok, kind) ==
    LET kept == [n \in 1..Len(orders) |->
                    IF n \in canceled THEN [orders[n] EXCEPT !.status = "canceled"]
                    ELSE orders[n]]
        creates == SelectSeq(calls, LAMBDA c : c.call = "create_order")
    IN  IF ok /\ Len(creates) > 0
        THEN Append(kept, [kind |-> kind, qty |-> creates[1].quantity, filled |-> 0,
                           status |-> "new", reduce_only |-> creates[1].reduce_only])
        ELSE kept

\* the orders withdrawn by the calls of one operation on trade t
Canceled(t, co, calls) ==
    {n \in 1..Len(orders) :
        \E i \in 1..Len(calls) :
            /\ calls[i].call = "cancel_order"
            /\ calls[i].id = n
            /\ \/ co.create /\ n = t.create_oid
               \/ co.stop /\ n = t.stop_oid
               \/ co.limit /\ n = t.limit_oid}

\* a venue tells the traded quantity as a cumulative or as an incremental
\* one, and the price as an average, an execution price or not at all
Venues == [qform : {"cum", "inc"}, pform : {"avg", "exec", "none"}]

Init ==
    /\ venue \in Venues
    /\ pc = "new"
    /\ trade = NewTrade
    /\ orders = <<>>
    /\ position = 0
    /\ raised = NoError
    /\ events = MaxEvents
    /\ ops = MaxOps
    /\ replays = MaxReplay
    /\ dup = "none"
    /\ hist = [pure |-> TRUE, notional |-> 0, steps |-> 0]
    /\ done = NotDone
    /\ now = 0
    /\ trader = NewTrader(1, TRUE)
    /\ worker = NewWorker
    /\ service = NewService

\* the trader opens the new trade with a limit entry order, and drops the
\* trade when the broker refuses the order
Open ==
    /\ pc = "new"
    /\ \E d \in Dirs, price \in OrderPrices, qty \in Quantities,
          ok \in CreateAnswers, created \in Timestamps \cup {None} :
        LET r == open(trade, d, ORDER_LIMIT, price, qty, 0, 0,
                      Len(orders) + 1, ok, PositionId, created)
        IN  /\ trade' = r.t
            /\ orders' = AfterCalls(r.calls, {}, ok, "entry")
            /\ raised' = r.raised
            /\ pc' = IF r.ret = True THEN "live" ELSE "removed"
            /\ done' = Done("open", r)
    /\ UNCHANGED <<venue, position, events, ops, replays, dup, hist, now, trader, worker, service>>

\* entry fills seen by trade t: a fill event counts as a step of a purely
\* exec-priced strictly increasing cumulative sequence, or ends that sequence
HistAfter(h, t, signal_type, data) ==
    IF signal_type = SIGNAL_ORDER_TRADED /\ data.id = t.create_oid
    THEN IF /\ h.pure
            /\ data.cum # None /\ data.cum > t.e
            /\ data.exec # None /\ data.exec > 0
            /\ data.avg = None
         THEN [h EXCEPT !.notional = @ + data.exec * (data.cum - t.e),
                        !.steps = @ + 1]
         ELSE [pure |-> FALSE, notional |-> 0, steps |-> 0]
    ELSE h

\* which side of the trade an order event is for
SideOf(t, data) ==
    IF data.id = t.create_oid THEN "entry"
    ELSE IF data.id = t.limit_oid \/ data.id = t.stop_oid THEN "exit"
    ELSE "other"

\* the strategy trader hands an order event to the trade; the event is
\* delivered a second time right after the first when twice holds
Deliver(signal_type, data, ref, twice) ==
    LET r1 == order_signal(trade, signal_type, data, ref)
        r2 == order_signal(r1.t, signal_type, data, ref)
        h1 == HistAfter(hist, trade, signal_type, data)
    IN  /\ events > 0
        /\ events' = events - 1
        /\ done' = NotDone
        /\ IF twice
           THEN /\ trade' = r2.t
                /\ raised' = r2.raised
                /\ hist' = HistAfter(h1, r1.t, signal_type, data)
                /\ replays' = replays - 1
                /\ dup' = SideOf(trade, data)
           ELSE /\ trade' = r1.t
                /\ raised' = r1.raised
                /\ hist' = h1
                /\ UNCHANGED <<replays, dup>>

\* whether a trade event may be delivered twice
Twice == IF replays > 0 THEN BOOLEAN ELSE {FALSE}

\* the broker acknowledges order n at time ts
Acknowledged(n, ts) ==
    /\ orders[n].status = "new"
    /\ orders' = [orders EXCEPT ![n].status = "open"]
    /\ Deliver(SIGNAL_ORDER_OPENED, [NoData EXCEPT !.id = n, !.timestamp = ts],
               n, FALSE)
    /\ UNCHANGED <<venue, pc, position, ops, now, trader, worker, service>>

OrderOpened ==
    \E n \in 1..Len(orders), ts \in Timestamps : Acknowledged(n, ts)

\* the event the broker sends when order n has traded inc lots up to cum
TradedData(n, cum, inc, qform, pform, price) ==
    [NoData EXCEPT
        !.id = n,
        !.cum = IF qform = "cum" THEN cum ELSE None,
        !.filled = IF qform = "inc" THEN inc ELSE None,
        !.avg = IF pform = "avg" THEN price ELSE None,
        !.exec = IF pform = "exec" THEN price ELSE None]

\* the most lots order n can trade now
Room(n) ==
    LET o == orders[n]
        room == o.qty - o.filled + (IF o.kind = "entry" THEN MaxOverfill ELSE 0)
    IN  IF o.reduce_only /\ position < room THEN position ELSE room

\* order n trades inc lots
Traded(n, inc, qform, pform, price, twice) ==
    /\ orders[n].status = "open"
    /\ inc \in 1..Room(n)
    /\ orders' = [orders EXCEPT
                    ![n].filled = @ + inc,
                    ![n].status = IF orders[n].filled + inc >= orders[n].qty
                                  THEN "filled" ELSE "open"]
    /\ position' = IF orders[n].kind = "entry" THEN position + inc
                   ELSE position - inc
    /\ Deliver(SIGNAL_ORDER_TRADED,
               TradedData(n, orders[n].filled + inc, inc, qform, pform, price),
               None, twice)
    /\ UNCHANGED <<venue, pc, ops, now, trader, worker, service>>

OrderTraded ==
    \E n \in 1..Len(orders), inc \in 1..(MaxQty + MaxOverfill),
       price \in Prices, twice \in Twice :
        Traded(n, inc, venue.qform, venue.pform, price, twice)

\* the venue reports the filled order n as deleted
OrderDeleted ==
    \E n \in 1..Len(orders) :
        /\ orders[n].status = "filled"
        /\ orders' = [orders EXCEPT ![n].status = "gone"]
        /\ Deliver(SIGNAL_ORDER_DELETED, [NoData EXCEPT !.id = n], None, FALSE)
        /\ UNCHANGED <<venue, pc, position, ops, now, trader, worker, service>>

\* the venue reports order n as canceled: an order the trade has withdrawn,
\* or an open order the exchange cancels by itself
OrderCanceled ==
    \E n \in 1..Len(orders) :
        /\ orders[n].status \in {"open", "canceled"}
        /\ orders' = [orders EXCEPT ![n].status = "gone"]
        /\ Deliver(SIGNAL_ORDER_CANCELED, [NoData EXCEPT !.id = n], None, FALSE)
        /\ UNCHANGED <<venue, pc, position, ops, now, trader, worker, service>>

\* the position of the trade is closed at the broker (manual close,
\* liquidation, or its last lot exited) and the trader hands the event to
\* the trade it targets
PositionDeleted ==
    /\ pc = "live"
    /\ Truthy(is_target_position(trade, PositionId, None))
    /\ orders[1].filled > 0
    /\ \E p \in Prices \cup {None} :
        LET r == position_signal(trade, SIGNAL_POSITION_DELETED,
                                 [NoData EXCEPT !.exec = p], None)
        IN  /\ trade' = r.t
            /\ raised' = r.raised
    /\ position' = 0
    /\ events > 0
    /\ events' = events - 1
    /\ done' = NotDone
    /\ UNCHANGED <<venue, pc, orders, ops, replays, dup, hist, now, trader, worker, service>>

\* an operation of the owning trader on the opened trade; kind is the kind
\* of order the operation is about
Operate(r, co, ok, kind) ==
    /\ pc = "live"
    /\ trade' = r.t
    /\ orders' = AfterCalls(r.calls, Canceled(trade, co, r.calls), ok, kind)
    /\ raised' = r.raised
    /\ done' = Done(kind, r)
    /\ ops > 0
    /\ ops' = ops - 1
    /\ UNCHANGED <<venue, pc, position, events, replays, dup, hist, now, trader, worker, service>>

ModifyTakeProfit ==
    \E price \in TakeProfitPrices, co \in CancelAnswers, ok \in CreateAnswers :
        Operate(modify_take_profit(trade, price, co, Len(orders) + 1, ok,
                                   Len(orders) + 1),
                co, ok, "limit")

ModifyStopLoss ==
    \E price \in StopLossPrices, co \in CancelAnswers, ok \in CreateAnswers :
        Operate(modify_stop_loss(trade, price, co, Len(orders) + 1, ok,
                                 Len(orders) + 1),
                co, ok, "stop")

Close ==
    \E co \in CancelAnswers, ok \in CreateAnswers :
        Operate(close(trade, co, Len(orders) + 1, ok), co, ok, "market")

CancelOpen ==
    \E co \in CancelAnswers :
        Operate(cancel_open(trade, co), co, FALSE, "entry")

Next ==
    \/ Open
    \/ OrderOpened
    \/ OrderTraded
    \/ OrderDeleted
    \/ OrderCanceled
    \/ PositionDeleted
    \/ ModifyTakeProfit
    \/ ModifyStopLoss
    \/ Close
    \/ CancelOpen

Spec == Init /\ [][Next]_vars

\* a longer run on one venue, which tells cumulative quantities and no
\* prices and delivers no event twice: time for two child orders to be
\* placed, acknowledged and filled
InitChildren ==
    /\ venue = [qform |-> "cum", pform |-> "none"]
    /\ pc = "new"
    /\ trade = NewTrade
    /\ orders = <<>>
    /\ position = 0
    /\ raised = NoError
    /\ events = MaxEvents + MoreEvents
    /\ ops = MaxOps
    /\ replays = 0
    /\ dup = "none"
    /\ hist = [pure |-> TRUE, notional |-> 0, steps |-> 0]
    /\ done = NotDone
    /\ now = 0
    /\ trader = NewTrader(1, TRUE)
    /\ worker = NewWorker
    /\ service = NewService

SpecChildren == InitChildren /\ [][Next]_vars

\* a run on the same venue with more operations of the trader: time to
\* place a child order, close and place a child order again
InitOperations ==
    /\ venue = [qform |-> "cum", pform |-> "none"]
    /\ pc = "new"
    /\ trade = NewTrade
    /\ orders = <<>>
    /\ position = 0
    /\ raised = NoError
    /\ events = MaxEvents
    /\ ops = MaxOps + MoreOps
    /\ replays = 0
    /\ dup = "none"
    /\ hist = [pure |-> TRUE, notional |-> 0, steps |-> 0]
    /\ done = NotDone
    /\ now = 0
    /\ trader = NewTrader(1, TRUE)
    /\ worker = NewWorker
    /\ service = NewService

SpecOperations == InitOperations /\ [][Next]_vars

\* ------------------------------------------------- the trader's process
\* the venue acknowledges order n without a valid time (timestamp 0)
OrderOpenedUntimed ==
    \E n \in 1..Len(orders) : Acknowledged(n, 0)

\* the user takes the trade over: StrategyTrade.set_user_trade
SetUserTrade ==
    /\ pc = "live"
    /\ ~trade.user_trade
    /\ trade' = [trade EXCEPT !.user_trade = TRUE]
    /\ done' = NotDone
    /\ UNCHANGED <<venue, pc, orders, position, raised, events, ops, replays, dup, hist, now, trader, worker, service>>

\* the user adds an operation to the trade: StrategyTrade.add_operation
AddOperation ==
    /\ pc = "live"
    /\ trade.operations < MaxOperations
    /\ trade' = [trade EXCEPT !.operations = @ + 1]
    /\ done' = NotDone
    /\ UNCHANGED <<venue, pc, orders, position, raised, events, ops, replays, dup, hist, now, trader, worker, service>>

\* one pass of process over the trade, at a time not before the last pass,
\* the ATR indicator giving one of stops; when inputs holds the stop and the
\* last price of the pass are kept in done
ProcessPass(stops, inputs) ==
    /\ pc = "live"
    /\ ops > 0
    /\ \E timestamp \in now..MaxNow, exit_price \in TakeProfitPrices \cup {None},
          atr_sl \in stops, last_price \in Prices,
          co \in CancelAnswers, ok \in CreateAnswers :
        LET r == process(trade, timestamp, exit_price, atr_sl, last_price,
                         trader.activity, co, Len(orders) + 1, ok)
        IN  /\ trade' = r.t
            /\ orders' = AfterCalls(r.calls, Canceled(trade, co, r.calls), ok, "market")
            /\ raised' = r.raised
            /\ done' = IF inputs
                       THEN [op |-> "process", ret |-> r.ret, calls |-> r.calls,
                             atr_sl |-> atr_sl, last_price |-> last_price]
                       ELSE Done("process", r)
            /\ now' = timestamp
    /\ ops' = ops - 1
    /\ UNCHANGED <<venue, pc, position, events, replays, dup, hist, trader, worker, service>>

Process == ProcessPass(StopLossPrices, FALSE)

\* a trade of one of the timeframes from its construction on, on a venue
\* which tells cumulative quantities and average prices, owned by a trader
\* that is active or not
InitProcess ==
    /\ venue = [qform |-> "cum", pform |-> "avg"]
    /\ pc = "new"
    /\ \E tf \in Timeframes : trade = [NewTrade EXCEPT !.timeframe = tf]
    /\ orders = <<>>
    /\ position = 0
    /\ raised = NoError
    /\ events = ProcessEvents
    /\ ops = MaxOps
    /\ replays = 0
    /\ dup = "none"
    /\ hist = [pure |-> TRUE, notional |-> 0, steps |-> 0]
    /\ done = NotDone
    /\ now = 0
    /\ \E activity \in BOOLEAN : trader = NewTrader(1, activity)
    /\ worker = NewWorker
    /\ service = NewService

NextProcess ==
    \/ Open
    \/ OrderOpened
    \/ OrderOpenedUntimed
    \/ OrderTraded
    \/ OrderCanceled
    \/ SetUserTrade
    \/ AddOperation
    \/ Process

SpecProcess == InitProcess /\ [][NextProcess]_vars

\* a pass of process with any stop of the ATR indicator
ProcessAtr == ProcessPass(AtrStops, TRUE)

NextStops ==
    \/ Open
    \/ OrderOpened
    \/ OrderTraded
    \/ ProcessAtr

SpecStops == InitProcess /\ [][NextStops]_vars

\* ------------------------------------------------------------- the worker
\* a step of the worker: nothing but the worker changes
Becomes(w) ==
    /\ worker' = w
    /\ UNCHANGED <<venue, pc, trade, orders, position, raised, events, ops, replays, dup, hist, done, now, trader, service>>

\* a call of another thread on the worker
Called(name, w) ==
    /\ worker.calls > 0
    /\ Becomes([w EXCEPT !.calls = @ - 1, !.last = name])

\* whether a hook may raise
Raising == IF worker.raises > 0 THEN BOOLEAN ELSE {FALSE}

\* start(): the test of running and its assignment
StartTest ==
    /\ worker.caller = "idle"
    /\ Called("start", start_test(worker))

StartThread ==
    /\ worker.caller = "thread_start"
    /\ Becomes(start_thread(worker))

StartPlay ==
    /\ worker.caller = "set_play"
    /\ Becomes(start_play(worker))

Play == Called("play", playpause(worker, TRUE))

Pause == Called("pause", playpause(worker, FALSE))

Stop == Called("stop", stop(worker))

\* Runnable.ping, as WatcherService.ping calls it on every watcher
Ping == Called("ping", ping(worker))

\* run(): pre_run returns or raises
PreRun ==
    /\ worker.thread = "pre_run"
    /\ \E exc \in Raising :
        Becomes(IF exc
                THEN [worker EXCEPT !.error = "pre_run", !.aborted = TRUE,
                                    !.raises = @ - 1, !.thread = "abort"]
                ELSE [worker EXCEPT !.thread = "outer"])

\* run(): the end of the handler of an exception of pre_run
Abort ==
    /\ worker.thread = "abort"
    /\ Becomes([worker EXCEPT !.running = FALSE, !.thread = "dead"])

\* run(): the test of the outer while
OuterTest ==
    /\ worker.thread = "outer"
    /\ Becomes([worker EXCEPT !.thread = IF worker.running THEN "inner" ELSE "post_run"])

\* run(): the test of the inner while; an iteration begins when it holds
InnerTest ==
    /\ worker.thread = "inner"
    /\ Becomes([worker EXCEPT !.thread = IF worker.running THEN "test_play" ELSE "outer"])

\* __process_once: the test of the playing flag
TestPlay ==
    /\ worker.thread = "test_play"
    /\ Becomes([worker EXCEPT !.iter = <<>>, !.iter_play = worker.playpause,
                              !.resumed = worker.loop_raised,
                              !.thread = IF worker.playpause THEN "pre_update"
                                         ELSE "sleep"])

\* __process_once: a hook is called, and returns or raises
Hook(hook) ==
    /\ worker.thread = hook
    /\ \E exc \in Raising :
        LET w == [worker EXCEPT !.iter = Append(@, hook)]
        IN  Becomes(IF exc THEN LoopExcept([w EXCEPT !.raises = @ - 1], hook)
                    ELSE [w EXCEPT !.thread = AfterHook(hook)])

PreUpdate == Hook("pre_update")

Update == Hook("update")

PostUpdate == Hook("post_update")

\* __process_once: the sleep of a paused worker
Sleep ==
    /\ worker.thread = "sleep"
    /\ Becomes([worker EXCEPT !.thread = "test_ping"])

\* __process_once: the test of the ping flag
TestPing ==
    /\ worker.thread = "test_ping"
    /\ Becomes([worker EXCEPT !.thread = IF worker.ping THEN "pong" ELSE "inner"])

\* __process_once: the pong message
Pong ==
    /\ worker.thread = "pong"
    /\ Becomes([pong(worker) EXCEPT !.thread = "clear_ping"])

\* __process_once: the ping flag is cleared
ClearPing ==
    /\ worker.thread = "clear_ping"
    /\ Becomes([worker EXCEPT !.ping = FALSE, !.thread = "inner"])

\* run(): post_run returns or raises
PostRun ==
    /\ worker.thread = "post_run"
    /\ \E exc \in Raising :
        Becomes([worker EXCEPT !.post_runs = @ + 1,
                               !.error = IF exc THEN "post_run" ELSE @,
                               !.raises = IF exc THEN @ - 1 ELSE @,
                               !.thread = "final"])

\* run(): its last statement
Final ==
    /\ worker.thread = "final"
    /\ Becomes([worker EXCEPT !.running = FALSE, !.thread = "dead"])

\* the worker thread
Thread ==
    \/ PreRun
    \/ Abort
    \/ OuterTest
    \/ InnerTest
    \/ TestPlay
    \/ PreUpdate
    \/ Update
    \/ PostUpdate
    \/ Sleep
    \/ TestPing
    \/ Pong
    \/ ClearPing
    \/ PostRun
    \/ Final

\* the threads that call the worker
Callers ==
    \/ StartTest
    \/ StartThread
    \/ StartPlay
    \/ Play
    \/ Pause
    \/ Stop
    \/ Ping

NextWorker == Thread \/ Callers

\* a worker just constructed, beside a trade and a trader just constructed
InitWorker ==
    /\ venue = [qform |-> "cum", pform |-> "avg"]
    /\ pc = "new"
    /\ trade = NewTrade
    /\ orders = <<>>
    /\ position = 0
    /\ raised = NoError
    /\ events = 0
    /\ ops = 0
    /\ replays = 0
    /\ dup = "none"
    /\ hist = [pure |-> TRUE, notional |-> 0, steps |-> 0]
    /\ done = NotDone
    /\ now = 0
    /\ trader = NewTrader(1, TRUE)
    /\ worker = NewWorker
    /\ service = NewService

SpecWorker == InitWorker /\ [][NextWorker]_vars

\* every thread that can run gets to run: the worker thread, and the
\* thread inside start()
SpecWorkerFair ==
    /\ SpecWorker
    /\ WF_vars(Thread)
    /\ WF_vars(StartThread \/ StartPlay)

\* ------------------------------------------- events of other orders
\* the id and the reference id of an order that is not of the trade
ForeignOid == MaxOrders + 1

OrderSignals ==
    {SIGNAL_ORDER_OPENED, SIGNAL_ORDER_DELETED, SIGNAL_ORDER_CANCELED,
     SIGNAL_ORDER_UPDATED, SIGNAL_ORDER_TRADED}

\* the data of an event of signal_type about the order oid
ForeignData(signal_type, oid, ts) ==
    IF signal_type = SIGNAL_ORDER_TRADED
    THEN TradedData(oid, 1, 1, venue.qform, venue.pform, 1)
    ELSE [NoData EXCEPT !.id = oid, !.timestamp = ts]

\* order_signal is called with an event the trade is not the target of:
\* an event of another order, with or without an id and a reference id
ForeignEvent ==
    \E signal_type \in OrderSignals, oid \in {ForeignOid, None},
       ref \in {ForeignOid, None}, ts \in Timestamps :
        LET data == ForeignData(signal_type, oid, ts)
            r == order_signal(trade, signal_type, data, ref)
        IN  /\ is_target_order(trade, oid, ref) = False
            /\ events > 0
            /\ events' = events - 1
            /\ trade' = r.t
            /\ raised' = r.raised
            /\ hist' = HistAfter(hist, trade, signal_type, data)
            /\ done' = [op |-> "foreign", ret |-> r.ret, calls |-> <<>>]
            /\ UNCHANGED <<venue, pc, orders, position, ops, replays, dup, now, trader, worker, service>>

NextForeign ==
    \/ Open
    \/ OrderOpened
    \/ OrderTraded
    \/ ForeignEvent

SpecForeign == InitProcess /\ [][NextForeign]_vars

\* --------------------------------------------------------- persistence
\* the trade is dumped and the dictionary loaded into a fresh trade
Reload ==
    /\ LET r == loads(NewTrade, dumps(trade), "strategy_service")
       IN  done' = [op |-> "loads", ret |-> r.ret, calls |-> <<>>,
                    raised |-> r.raised, loaded |-> r.t]
    /\ done.op # "loads"
    /\ UNCHANGED <<venue, pc, trade, orders, position, raised, events, ops, replays, dup, hist, now, trader, worker, service>>

NextPersist ==
    \/ Open
    \/ OrderOpened
    \/ OrderTraded
    \/ ModifyStopLoss
    \/ Reload

SpecPersist == InitProcess /\ [][NextPersist]_vars

\* ------------------------------------------------ the trader's entries
\* the times at which the trader may handle the next entry signal: the
\* clock starts at 1 and does not run backwards
EntryTimes == (IF now = 0 THEN 1 ELSE now)..MaxNow

\* the trader handles an entry signal of the strategy; the broker stamps the
\* order with the time of its creation or leaves that to the acknowledgement
ProcessEntry ==
    /\ ops > 0
    /\ \E timestamp \in EntryTimes, price \in OrderPrices, timeframe \in Timeframes,
          quantity \in 0..MaxQty, ok \in CreateAnswers :
      \E created \in {timestamp, None} :
        LET r == process_entry(trader, timestamp, price, 0, 0, timeframe, quantity,
                               MinNotional, Len(orders) + 1, ok, created)
            opened == Len(r.trader.trades) > Len(trader.trades)
        IN  /\ trader' = IF opened
                         THEN [r.trader EXCEPT
                                 !.entry_id = r.trader.trades[Len(r.trader.trades)].id,
                                 !.entry_time = timestamp]
                         ELSE r.trader
            /\ orders' = AfterCalls(r.calls, {}, ok, "entry")
            /\ done' = [op |-> "process_entry", ret |-> NoReturn, calls |-> r.calls,
                        timestamp |-> timestamp, timeframe |-> timeframe,
                        quantity |-> quantity, price |-> price]
            /\ now' = timestamp
    /\ ops' = ops - 1
    /\ UNCHANGED <<venue, pc, trade, position, raised, events, replays, dup, hist, worker, service>>

\* the broker acknowledges entry order n at the present time and the trader
\* hands the event to the trades it targets
EntryOpened ==
    /\ events > 0
    /\ \E n \in 1..Len(orders), ts \in {now} :
        /\ orders[n].status = "new"
        /\ orders' = [orders EXCEPT ![n].status = "open"]
        /\ trader' = [trader EXCEPT !.trades =
                [i \in 1..Len(trader.trades) |->
                    IF Truthy(is_target_order(trader.trades[i], n, n))
                    THEN order_signal(trader.trades[i], SIGNAL_ORDER_OPENED,
                                      [NoData EXCEPT !.id = n, !.timestamp = ts], n).t
                    ELSE trader.trades[i]]]
    /\ events' = events - 1
    /\ done' = NotDone
    /\ UNCHANGED <<venue, pc, trade, position, raised, ops, replays, dup, hist, now, worker, service>>

\* a trader with some max_trades parameter, active or not, before its
\* first entry
InitEntry ==
    /\ venue = [qform |-> "cum", pform |-> "avg"]
    /\ pc = "new"
    /\ trade = NewTrade
    /\ orders = <<>>
    /\ position = 0
    /\ raised = NoError
    /\ events = MaxEvents
    /\ ops = MaxOps + MoreOps
    /\ replays = 0
    /\ dup = "none"
    /\ hist = [pure |-> TRUE, notional |-> 0, steps |-> 0]
    /\ done = NotDone
    /\ now = 0
    /\ \E max_trades \in 0..MaxTrades, activity \in BOOLEAN :
        trader = NewTrader(max_trades, activity)
    /\ worker = NewWorker
    /\ service = NewService

\* the trader drops a trade from its trade set (a trade that ended)
TradeRemoved ==
    /\ \E i \in 1..Len(trader.trades) :
        trader' = remove_trade(trader, trader.trades[i].id)
    /\ done' = NotDone
    /\ UNCHANGED <<venue, pc, trade, orders, position, raised, events, ops, replays, dup, hist, now, worker, service>>

NextEntry == ProcessEntry \/ EntryOpened \/ TradeRemoved

SpecEntry == InitEntry /\ [][NextEntry]_vars

\* ------------------------------------------------- the market filter
MaxFilterTime == 5

\* what the trader of the broker knows of the market of the instrument
Markets ==
    {NoMarket} \cup [trade : {"buy-sell", "margin"}, price : {None, 1, MinPrice},
                 vol24h_quote : {None, 1, MinVol24h}]

\* process asks whether the market is to be computed at this time
FilterMarket ==
    /\ \E timestamp \in now..MaxFilterTime, has_trader \in BOOLEAN, market \in Markets :
        LET r == filter_market(trader, timestamp, has_trader, market)
        IN  /\ trader' = r.trader
            /\ done' = [op |-> "filter_market", ret |-> r.ret, calls |-> r.calls,
                        timestamp |-> timestamp]
            /\ now' = timestamp
    /\ UNCHANGED <<venue, pc, trade, orders, position, raised, events, ops, replays, dup, hist, worker, service>>

\* a trader before its first call of filter_market and its one entry
InitFilter ==
    /\ venue = [qform |-> "cum", pform |-> "avg"]
    /\ pc = "new"
    /\ trade = NewTrade
    /\ orders = <<>>
    /\ position = 0
    /\ raised = NoError
    /\ events = 0
    /\ ops = 1
    /\ replays = 0
    /\ dup = "none"
    /\ hist = [pure |-> TRUE, notional |-> 0, steps |-> 0]
    /\ done = NotDone
    /\ now = 0
    /\ trader = NewTrader(1, TRUE)
    /\ worker = NewWorker
    /\ service = NewService

NextFilter == FilterMarket \/ ProcessEntry

SpecFilter == InitFilter /\ [][NextFilter]_vars

\* ------------------------------------------------ the trader's lock
\* the answers of the broker when every cancel request is accepted
AllCanceled == [create |-> TRUE, stop |-> TRUE, limit |-> TRUE]

\* the exit section of process over trade t, no exit signal being retained
ExitPass(t, timestamp) ==
    process(t, timestamp, None, 1, 1, trader.activity, AllCanceled, 0, FALSE)

\* whether a call made under the lock may raise
LockedRaising == IF trader.raises > 0 THEN BOOLEAN ELSE {FALSE}

\* the place of the worker thread after the exit section
AfterExits == IF trader.entry.has_entry THEN "entry" ELSE "idle"

\* the worker thread enters process with the signals of the strategy: an
\* entry signal or none
ProcessBegin ==
    /\ trader.thread = "idle"
    /\ ops > 0
    /\ \E timestamp \in EntryTimes, has_entry \in BOOLEAN, timeframe \in Timeframes,
          quantity \in {0, MaxQty}, price \in OrderPrices :
        /\ trader' = [trader EXCEPT
                        !.entry = [NoEntry EXCEPT !.timestamp = timestamp,
                                                  !.has_entry = has_entry,
                                                  !.timeframe = timeframe,
                                                  !.quantity = quantity,
                                                  !.price = price],
                        !.thread = IF trader.trades # <<>> THEN "exit_lock"
                                   ELSE IF has_entry THEN "entry" ELSE "idle"]
        /\ now' = timestamp
    /\ ops' = ops - 1
    /\ done' = NotDone
    /\ UNCHANGED <<venue, pc, trade, orders, position, raised, events, replays, dup, hist, worker, service>>

\* process: self.lock() before the loop over the trades
ExitLock ==
    /\ trader.thread = "exit_lock"
    /\ CanLock(trader.mutex, "worker")
    /\ trader' = [trader EXCEPT !.mutex = lock(@, "worker"), !.thread = "exit_loop"]
    /\ done' = NotDone
    /\ UNCHANGED <<venue, pc, trade, orders, position, raised, events, ops, replays, dup, hist, now, worker, service>>

\* process: the loop over the trades; a call it makes (the broker, an
\* indicator) may raise, and the exception leaves process
ExitLoop ==
    /\ trader.thread = "exit_loop"
    /\ \E exc \in LockedRaising :
        IF exc
        THEN /\ trader' = [trader EXCEPT !.mutex = Unwind(@), !.raises = @ - 1,
                                         !.thread = "idle", !.entry = NoEntry]
             /\ UNCHANGED orders
        ELSE LET passed == [i \in 1..Len(trader.trades) |->
                              ExitPass(trader.trades[i], trader.entry.timestamp)]
                 canceled == {n \in 1..Len(orders) :
                                \E i \in 1..Len(trader.trades) :
                                    passed[i].calls = <<CancelCall(n)>>}
             IN  /\ trader' = [trader EXCEPT
                                 !.trades = [i \in 1..Len(trader.trades) |-> passed[i].t],
                                 !.thread = "exit_unlock"]
                 /\ orders' = [n \in 1..Len(orders) |->
                                 IF n \in canceled
                                 THEN [orders[n] EXCEPT !.status = "canceled"]
                                 ELSE orders[n]]
    /\ done' = NotDone
    /\ UNCHANGED <<venue, pc, trade, position, raised, events, ops, replays, dup, hist, now, worker, service>>

\* process: self.unlock() after the loop
ExitUnlock ==
    /\ trader.thread = "exit_unlock"
    /\ trader' = [trader EXCEPT !.mutex = unlock(@), !.thread = AfterExits]
    /\ done' = NotDone
    /\ UNCHANGED <<venue, pc, trade, orders, position, raised, events, ops, replays, dup, hist, now, worker, service>>

\* process_entry: self.lock() when the trader has trades
EntryLock ==
    /\ trader.thread = "entry"
    /\ trader.trades # <<>>
    /\ CanLock(trader.mutex, "worker")
    /\ trader' = [trader EXCEPT !.mutex = lock(@, "worker"), !.thread = "entry_check"]
    /\ done' = NotDone
    /\ UNCHANGED <<venue, pc, trade, orders, position, raised, events, ops, replays, dup, hist, now, worker, service>>

\* process_entry: the admission checks, and self.unlock() after them when
\* the lock was taken
EntryCheck ==
    /\ \/ trader.thread = "entry_check"
       \/ trader.thread = "entry" /\ trader.trades = <<>>
    /\ LET e == trader.entry
           do_order == /\ trader.activity
                       /\ ~TooSmall(e.quantity, e.price, MinNotional)
                       /\ EntryAllowed(trader, e.timestamp, LONG, e.timeframe)
       IN  trader' = [trader EXCEPT
                        !.mutex = IF trader.thread = "entry_check" THEN unlock(@) ELSE @,
                        !.entry.do_order = do_order,
                        !.thread = IF do_order THEN "add_trade" ELSE "idle"]
    /\ done' = NotDone
    /\ UNCHANGED <<venue, pc, trade, orders, position, raised, events, ops, replays, dup, hist, now, worker, service>>

\* process_entry: the new trade joins the trade set
EntryAdd ==
    /\ trader.thread = "add_trade"
    /\ LET tr == add_trade(trader, [NewTrade EXCEPT !.timeframe = trader.entry.timeframe])
       IN  trader' = [tr EXCEPT !.entry.id = tr.trades[Len(tr.trades)].id,
                                !.thread = "open"]
    /\ done' = NotDone
    /\ UNCHANGED <<venue, pc, trade, orders, position, raised, events, ops, replays, dup, hist, now, worker, service>>

\* process_entry: trade.open up to the call of create_order; the order
\* reaches the broker, which may acknowledge it from now on
EntryOpen ==
    /\ trader.thread = "open"
    /\ Len(orders) < MaxOrders
    /\ LET e == trader.entry
           n == Len(trader.trades)
           ref == Len(orders) + 1
       IN  /\ trader' = [trader EXCEPT
                            !.trades[n] = open_order(@, LONG, ORDER_LIMIT, e.price,
                                                     e.quantity, 0, 0, ref),
                            !.entry.ref = ref,
                            !.thread = "create_order"]
           /\ orders' = Append(orders, [kind |-> "entry", qty |-> e.quantity, filled |-> 0,
                                        status |-> "new", reduce_only |-> FALSE])
    /\ done' = NotDone
    /\ UNCHANGED <<venue, pc, trade, position, raised, events, ops, replays, dup, hist, now, worker, service>>

\* process_entry: create_order returns, accepted or refused (refused only
\* when the broker has not acknowledged the order), and open returns; a
\* trade whose order was refused leaves the trade set
EntryCreated ==
    /\ trader.thread = "create_order"
    /\ \E ok \in (IF orders[trader.entry.ref].status = "new" THEN BOOLEAN ELSE {TRUE}) :
      \E created \in {trader.entry.timestamp, None} :
        LET e == trader.entry
            n == CHOOSE i \in 1..Len(trader.trades) : trader.trades[i].id = e.id
            r == open_created(trader.trades[n], ok, PositionId, created)
            tr == [trader EXCEPT !.trades[n] = r.t, !.thread = "idle"]
        IN  /\ trader' = IF ok
                         THEN [tr EXCEPT !.entry_id = e.id, !.entry_time = e.timestamp]
                         ELSE Rollback(tr, e.id, FALSE)
            /\ orders' = IF ok THEN orders
                         ELSE [orders EXCEPT ![e.ref].status = "gone"]
    /\ done' = NotDone
    /\ UNCHANGED <<venue, pc, trade, position, raised, events, ops, replays, dup, hist, now, worker, service>>

\* the worker thread calls a method wrapped by Runnable.mutexed, which
\* returns or raises
MutexedCall ==
    /\ trader.thread = "idle"
    /\ CanLock(trader.mutex, "worker")
    /\ \E exc \in LockedRaising :
        trader' = IF exc
                  THEN [trader EXCEPT !.mutex = Unwind(lock(@, "worker")),
                                      !.raises = @ - 1]
                  ELSE [trader EXCEPT !.mutex = unlock(lock(@, "worker"))]
    /\ done' = NotDone
    /\ UNCHANGED <<venue, pc, trade, orders, position, raised, events, ops, replays, dup, hist, now, worker, service>>

\* the broker acknowledges order n: its callback thread enters the
\* trader's order_signal and asks for the lock
CallbackArrives ==
    /\ trader.callback.at = "idle"
    /\ events > 0
    /\ \E n \in 1..Len(orders) :
        /\ orders[n].status = "new"
        /\ orders' = [orders EXCEPT ![n].status = "open"]
        /\ trader' = [trader EXCEPT !.callback = [at |-> "waiting", oid |-> n]]
    /\ events' = events - 1
    /\ done' = NotDone
    /\ UNCHANGED <<venue, pc, trade, position, raised, ops, replays, dup, hist, now, worker, service>>

\* the callback thread gets the lock
CallbackLock ==
    /\ trader.callback.at = "waiting"
    /\ CanLock(trader.mutex, "callback")
    /\ trader' = [trader EXCEPT !.mutex = lock(@, "callback"), !.callback.at = "locked"]
    /\ done' = NotDone
    /\ UNCHANGED <<venue, pc, trade, orders, position, raised, events, ops, replays, dup, hist, now, worker, service>>

\* the callback thread hands the acknowledgement, at the present time, to
\* the trades it targets and releases the lock
CallbackDeliver ==
    /\ trader.callback.at = "locked"
    /\ LET n == trader.callback.oid
           data == [NoData EXCEPT !.id = n, !.timestamp = now]
       IN  /\ trader' = [trader EXCEPT
                !.trades = [i \in 1..Len(trader.trades) |->
                    IF Truthy(is_target_order(trader.trades[i], n, n))
                    THEN order_signal(trader.trades[i], SIGNAL_ORDER_OPENED, data, n).t
                    ELSE trader.trades[i]],
                !.mutex = unlock(@),
                !.callback = [at |-> "idle", oid |-> None]]
           /\ done' = [op |-> "ack", ret |-> NoReturn, calls |-> <<>>, oid |-> n]
    /\ UNCHANGED <<venue, pc, trade, orders, position, raised, events, ops, replays, dup, hist, now, worker, service>>

\* an active trader allowed MaxTrades trades, before its first process
InitLock ==
    /\ venue = [qform |-> "cum", pform |-> "avg"]
    /\ pc = "new"
    /\ trade = NewTrade
    /\ orders = <<>>
    /\ position = 0
    /\ raised = NoError
    /\ events = MaxEvents
    /\ ops = MaxOps + MoreOps
    /\ replays = 0
    /\ dup = "none"
    /\ hist = [pure |-> TRUE, notional |-> 0, steps |-> 0]
    /\ done = NotDone
    /\ now = 0
    /\ trader = NewTrader(MaxTrades, TRUE)
    /\ worker = NewWorker
    /\ service = NewService

NextLock ==
    \/ ProcessBegin
    \/ ExitLock
    \/ ExitLoop
    \/ ExitUnlock
    \/ EntryLock
    \/ EntryCheck
    \/ EntryAdd
    \/ EntryOpen
    \/ EntryCreated
    \/ MutexedCall
    \/ CallbackArrives
    \/ CallbackLock
    \/ CallbackDeliver

SpecLock == InitLock /\ [][NextLock]_vars

\* ------------------------------------------------ the watcher service
\* a step of the service: nothing but the service changes
Serves(sv, op) ==
    /\ service' = sv
    /\ done' = [op |-> op, ret |-> NoReturn, calls |-> <<>>]
    /\ UNCHANGED <<venue, pc, trade, orders, position, raised, events, ops, replays, dup, hist, now, trader, worker>>

\* WatcherService.start
ServiceStart ==
    /\ service.at = "idle"
    /\ service.starts > 0
    /\ \E oks \in [WatcherNames -> BOOLEAN] :
        Serves(start_from([service EXCEPT !.starts = @ - 1], 1, oks), "start")

\* the thread of registered watcher n: pre_run returns or raises
WatcherPreRun ==
    \E n \in 1..Len(service.watchers) :
        /\ service.watchers[n].thread = "pre_run"
        /\ \E exc \in (IF service.raises > 0 THEN BOOLEAN ELSE {FALSE}) :
            Serves(IF exc
                   THEN [service EXCEPT !.watchers[n].running = FALSE,
                                        !.watchers[n].thread = "dead",
                                        !.raises = @ - 1]
                   ELSE [service EXCEPT !.watchers[n].thread = "loop"],
                   "thread")

\* the thread of registered watcher n leaves the loop of run() once
\* running is false, and ends
WatcherEnds ==
    \E n \in 1..Len(service.watchers) :
        /\ service.watchers[n].thread = "loop"
        /\ ~service.watchers[n].running
        /\ Serves([service EXCEPT !.watchers[n].thread = "dead"], "thread")

\* WatcherService.terminate is called
TerminateBegin ==
    /\ service.at = "idle"
    /\ service.starts < MaxStarts
    /\ Serves([service EXCEPT !.at = "stop", !.i = 1, !.joined = FALSE], "terminate")

\* terminate, first loop: stop the next watcher when it is running
TerminateStop ==
    /\ service.at = "stop"
    /\ Serves(IF service.i > Len(service.watchers)
              THEN [service EXCEPT !.at = "join", !.i = 1]
              ELSE [service EXCEPT !.watchers[service.i] = watcher_stop(@),
                                   !.i = @ + 1],
              "stopping")

\* terminate, second loop: join the thread of the next watcher when it is
\* alive, which waits for its end
TerminateJoin ==
    /\ service.at = "join"
    /\ service.i <= Len(service.watchers)
    /\ IF is_alive(service.watchers[service.i])
       THEN Serves([service EXCEPT !.joined = TRUE], "joining")
       ELSE Serves([service EXCEPT !.i = @ + 1], "joining")

\* terminate: the registry is reset and terminate returns
TerminateReturn ==
    /\ service.at = "join"
    /\ service.i > Len(service.watchers)
    /\ Serves([service EXCEPT !.watchers = <<>>, !.at = "idle", !.i = 0], "terminated")

\* a service with any configuration, before its first start
InitService ==
    /\ venue = [qform |-> "cum", pform |-> "avg"]
    /\ pc = "new"
    /\ trade = NewTrade
    /\ orders = <<>>
    /\ position = 0
    /\ raised = NoError
    /\ events = 0
    /\ ops = 0
    /\ replays = 0
    /\ dup = "none"
    /\ hist = [pure |-> TRUE, notional |-> 0, steps |-> 0]
    /\ done = NotDone
    /\ now = 0
    /\ trader = NewTrader(1, TRUE)
    /\ worker = NewWorker
    /\ \E config \in WatcherConfigs : service = [NewService EXCEPT !.config = config]

NextService ==
    \/ ServiceStart
    \/ WatcherPreRun
    \/ WatcherEnds
    \/ TerminateBegin
    \/ TerminateStop
    \/ TerminateJoin
    \/ TerminateReturn

SpecService == InitService /\ [][NextService]_vars

\* ---------------------------------------------------------------- claims
Sign(n) == IF n > 0 THEN 1 ELSE IF n < 0 THEN -1 ELSE 0

\* C1: the filled exit quantity is never negative and never exceeds the
\* filled entry quantity, whatever order and position events were applied.
C1_ExitWithinEntry ==
    0 <= trade.x /\ trade.x <= trade.e

\* C2: an exit side in state FILLED has exited at least the filled entry
\* quantity, whether FILLED came from trade events or from POSITION_DELETED.
C2_ExitFilledCoversEntry ==
    trade.exit_state = STATE_FILLED => trade.x >= trade.e

C4_PositionDeletedExitsRemainder ==
    [][(PositionDeleted /\ trade.x < trade.e)
        => (trade'.x = trade'.e /\ trade'.exit_state = STATE_FILLED)]_vars

\* C5: a trade event on the entry order whose cumulative quantity reaches
\* the ordered quantity raises no error and leaves the entry FILLED with e
\* the reported cumulative quantity.
C5_EntryFillCompletes ==
    [][\A n \in 1..Len(orders), inc \in 1..(MaxQty + MaxOverfill), price \in Prices :
        (/\ Traded(n, inc, "cum", venue.pform, price, FALSE)
         /\ venue.qform = "cum"
         /\ n = trade.create_oid
         /\ orders[n].filled + inc >= trade.oq)
        => (/\ raised' = NoError
            /\ trade'.entry_state = STATE_FILLED
            /\ trade'.e = orders[n].filled + inc)]_vars

\* C6: when a trade event brings a side to FILLED the trade forgets the
\* order: the order id and reference id of the entry (of the limit or stop
\* child for the exit side) are None and is_target_order no longer matches.
C6_FilledForgetsOrder ==
    [][\A n \in 1..Len(orders) :
        (OrderTraded /\ orders'[n].filled > orders[n].filled)
        => (/\ (n = trade.create_oid /\ trade'.entry_state = STATE_FILLED)
                => (/\ trade'.create_oid = None
                    /\ trade'.create_ref_oid = None
                    /\ is_target_order(trade', n, n) = False)
            /\ (n = trade.limit_oid /\ trade'.exit_state = STATE_FILLED)
                => (/\ trade'.limit_oid = None
                    /\ trade'.limit_ref_oid = None
                    /\ is_target_order(trade', n, n) = False)
            /\ (n = trade.stop_oid /\ trade'.exit_state = STATE_FILLED)
                => (/\ trade'.stop_oid = None
                    /\ trade'.stop_ref_oid = None
                    /\ is_target_order(trade', n, n) = False))]_vars

\* trade events on the entry order that carry a cumulative quantity, with
\* every combination of average and execution price
EntryCumulativeEvents ==
    { [NoData EXCEPT !.id = trade.create_oid, !.cum = cum, !.avg = avg, !.exec = exec] :
        cum \in 1..(MaxQty + MaxOverfill),
        avg \in Prices \cup {None}, exec \in Prices \cup {None} }

C9_ProfitLossSign ==
    trade.x > 0 =>
        RSign(trade.pl) = Sign(trade.dir) * RSign(RSub(trade.axp, trade.aep))

\* C10: is_active returns the boolean true exactly when e > 0, x < e and the
\* exit side is not FILLED, and the boolean false otherwise.
C10_IsActiveBoolean ==
    /\ is_active(trade) \in {True, False}
    /\ is_active(trade) = True
        <=> (trade.e > 0 /\ trade.x < trade.e /\ trade.exit_state # STATE_FILLED)

\* C11: is_closed is true exactly when both sides are FILLED or a filled
\* entry quantity is wholly exited (e > 0 and x >= e), so also for a partly
\* filled entry whose exits have reached e.
C11_IsClosed ==
    is_closed(trade)
        <=> \/ trade.entry_state = STATE_FILLED /\ trade.exit_state = STATE_FILLED
            \/ trade.e > 0 /\ trade.x >= trade.e

\* C12: a closed trade is not active, and no step makes a closed trade
\* active again.
C12_ClosedStaysInactive ==
    [][is_closed(trade)
        => (~Truthy(is_active(trade)) /\ ~Truthy(is_active(trade')))]_vars

\* the alive child orders of a kind at the broker
AliveChildren(kind) == {n \in 1..Len(orders) : Live(n) /\ orders[n].kind = kind}

\* C13: at most one stop child and at most one limit child of the trade is
\* alive at the broker, whatever operations and acknowledgements interleave.
C13_OneChildOfAKind ==
    /\ Cardinality(AliveChildren("stop")) <= 1
    /\ Cardinality(AliveChildren("limit")) <= 1
\* the broker calls of kind `call` among calls
CallsOf(calls, call) == SelectSeq(calls, LAMBDA c : c.call = call)

\* C14: when the broker refuses to cancel the existing limit (resp. stop)
\* order, modify_take_profit (resp. modify_stop_loss) returns false, submits
\* no order and leaves limit_oid, limit_ref_oid and tp (resp. stop_oid,
\* stop_ref_oid and sl) as they were.
C14_RefusedCancelAborts ==
    [][\A price \in TakeProfitPrices \cup StopLossPrices, co \in CancelAnswers, ok \in CreateAnswers :
        /\ (/\ Operate(modify_take_profit(trade, price, co, Len(orders) + 1, ok, Len(orders) + 1),
                       co, ok, "limit")
            /\ trade.limit_oid # None /\ ~co.limit)
           => (/\ done'.ret = False
               /\ CallsOf(done'.calls, "create_order") = <<>>
               /\ Len(orders') = Len(orders)
               /\ trade'.limit_oid = trade.limit_oid
               /\ trade'.limit_ref_oid = trade.limit_ref_oid
               /\ trade'.tp = trade.tp)
        /\ (/\ Operate(modify_stop_loss(trade, price, co, Len(orders) + 1, ok, Len(orders) + 1),
                       co, ok, "stop")
            /\ trade.stop_oid # None /\ ~co.stop)
           => (/\ done'.ret = False
               /\ CallsOf(done'.calls, "create_order") = <<>>
               /\ Len(orders') = Len(orders)
               /\ trade'.stop_oid = trade.stop_oid
               /\ trade'.stop_ref_oid = trade.stop_ref_oid
               /\ trade'.sl = trade.sl)]_vars

\* modify_take_profit has just asked to cancel the live limit order of a
\* trade with quantity left to exit, and was refused
C14_Witness ==
    /\ done.op = "limit"
    /\ done.ret = False
    /\ trade.limit_oid # None
    /\ Live(trade.limit_oid)
    /\ done.calls = <<CancelCall(trade.limit_oid)>>
    /\ trade.e > trade.x

\* C15: when create_order returns false inside open, modify_take_profit or
\* modify_stop_loss, the operation returns false and every field of the
\* trade keeps the value it had before the call.
C15_RefusedCreateLeavesTrade ==
    [][(/\ done'.op \in {"open", "limit", "stop"}
        /\ CallsOf(done'.calls, "create_order") # <<>>
        /\ Len(orders') = Len(orders))
       => (done'.ret = False /\ trade' = trade)]_vars

\* C16: close on a trade with e > x first asks the broker to cancel every
\* order whose id the trade holds (entry, stop, limit) and then submits
\* exactly one market order for e - x in the direction opposite to the
\* trade; with e = x it submits no order and returns true.
C16_CloseCancelsThenExits ==
    [][done'.op = "market"
       => LET calls == done'.calls
              n == Len(calls)
              held == {trade.create_oid, trade.stop_oid, trade.limit_oid} \ {None}
          IN  /\ trade.e > trade.x
                  => /\ n = Cardinality(held) + 1
                     /\ \A i \in 1..(n - 1) : calls[i].call = "cancel_order"
                     /\ {calls[i].id : i \in 1..(n - 1)} = held
                     /\ calls[n].call = "create_order"
                     /\ calls[n].order_type = ORDER_MARKET
                     /\ calls[n].quantity = trade.e - trade.x
                     /\ calls[n].direction = -trade.dir
              /\ trade.e = trade.x
                  => /\ CallsOf(calls, "create_order") = <<>>
                     /\ done'.ret = True]_vars

\* close has just asked to cancel two orders and then submitted the market
\* order, which the broker accepted
C16_Witness ==
    /\ done.op = "market"
    /\ Len(done.calls) = 3
    /\ done.calls[1].call = "cancel_order"
    /\ done.calls[2].call = "cancel_order"
    /\ done.calls[3].call = "create_order"
    /\ done.ret = True
    /\ trade.e > trade.x

\* C17: when the entry is partially filled (0 < e < oq), its order is
\* still live and the validity window (the timeframe of the trade) has
\* passed since the entry open time, a pass of process cancels the entry
\* order and leaves e as it was.
C17_PartialEntryExpires ==
    [][(/\ done'.op = "process"
        /\ 0 < trade.e /\ trade.e < trade.oq
        /\ Live(trade.create_oid)
        /\ now' - trade.eot > trade.timeframe)
       => (/\ CallsOf(done'.calls, "cancel_order") # <<>>
           /\ done'.calls[1] = CancelCall(trade.create_oid)
           /\ trade'.e = trade.e)]_vars

\* C18: is_entry_timeout(now, timeframe) is true exactly when the entry is
\* OPENED, e = 0 and now - eot >= timeframe, whatever eot is (0 included),
\* and a pass of process calls cancel_open on the trade exactly then.
C18_EntryTimeout ==
    [][done'.op = "process"
       => LET timeout == /\ trade.entry_state = STATE_OPENED
                         /\ trade.e = 0
                         /\ now' - trade.eot >= trade.timeframe
          IN  /\ is_entry_timeout(trade, now', trade.timeframe) <=> timeout
              /\ timeout => done'.calls = <<CancelCall(trade.create_oid)>>
              /\ (trade.e = 0 /\ done'.calls # <<>>) => timeout]_vars

\* the position of the first call of kind `call` among calls, 0 if none
FirstCall(calls, call) ==
    IF CallsOf(calls, call) = <<>> THEN 0
    ELSE CHOOSE i \in 1..Len(calls) :
            /\ calls[i].call = call
            /\ \A j \in 1..(i - 1) : calls[j].call # call

\* C19: process_entry puts the trade it creates into the trade set before
\* it calls open and takes it out again when open fails: afterwards the
\* trade is in the trade set exactly if the broker accepted the entry order,
\* and an entry notification with the trade's id is emitted only then.
C19_EntryRegistered ==
    [][(done'.op = "process_entry" /\ CallsOf(done'.calls, "add_trade") # <<>>)
       => LET calls == done'.calls
              id == calls[FirstCall(calls, "add_trade")].id
              accepted == Len(orders') = Len(orders) + 1
              owned == \E i \in 1..Len(trader'.trades) : trader'.trades[i].id = id
              notified == \E i \in 1..Len(calls) : calls[i] = NotifyCall(id, "entry")
          IN  /\ FirstCall(calls, "create_order") > FirstCall(calls, "add_trade")
              /\ \A i \in 1..Len(trader.trades) : trader.trades[i].id # id
              /\ owned <=> accepted
              /\ ~accepted => CallsOf(calls, "remove_trade") = <<RemoveTradeCall(id)>>
              /\ notified => accepted]_vars

\* the broker has just refused the entry order of a second trade, which
\* process_entry registered and removed again
C19_Witness ==
    /\ done.op = "process_entry"
    /\ Len(done.calls) = 3
    /\ done.calls[1].call = "add_trade"
    /\ done.calls[2].call = "create_order"
    /\ done.calls[3] = RemoveTradeCall(done.calls[1].id)
    /\ Len(trader.trades) = 1
    /\ trader.trades[1].id # done.calls[1].id

\* C20: whatever max_trades >= 0 the trader is configured with, and
\* starting from no more than max_trades trades, the trader never owns
\* more than max_trades trades after process_entry calls.
C20_MaxTrades ==
    Len(trader.trades) <= trader.max_trades

\* C21: the trader never owns two trades of the same timeframe, and
\* process_entry submits no order for a timeframe while a trade of that
\* timeframe is in the trade set, whatever entries and removals came before.
C21_OneTradePerTimeframe ==
    [][/\ \A i, j \in 1..Len(trader'.trades) :
            trader'.trades[i].timeframe = trader'.trades[j].timeframe => i = j
       /\ (/\ done'.op = "process_entry"
           /\ \E i \in 1..Len(trader.trades) :
                 trader.trades[i].timeframe = done'.timeframe)
          => (/\ CallsOf(done'.calls, "create_order") = <<>>
              /\ CallsOf(done'.calls, "add_trade") = <<>>)]_vars

\* an active trader with room for another trade and funds has just dropped
\* an entry, late enough after its last trade, for the timeframe of a trade
\* it owns
C21_Witness ==
    /\ done.op = "process_entry"
    /\ done.calls = <<NotifyCall(-1, "entry")>>
    /\ trader.activity
    /\ done.quantity * done.price >= MinNotional
    /\ Len(trader.trades) = 1
    /\ trader.max_trades = 2
    /\ trader.trades[1].timeframe = done.timeframe
    /\ trader.trades[1].eot > 0
    /\ done.timestamp - trader.trades[1].eot >= done.timeframe

\* the time at which the entry of the trade the trader opened last was
\* opened: its entry open time, or, as long as the broker has not told it,
\* the time of the process_entry call that submitted the order
LastEntryOpened ==
    LET last == trader.trades[Len(trader.trades)]
    IN  IF last.eot # 0 THEN last.eot ELSE trader.entry_time

\* C22: an entry in the direction of the previous trade that arrives less
\* than its timeframe after the previous trade's entry was opened is
\* dropped (no trade created, no order placed), also when the broker has
\* not yet acknowledged the previous entry.
C22_EntryJustAfterDropped ==
    [][(/\ done'.op = "process_entry"
        /\ trader.trades # <<>>
        /\ trader.trades[Len(trader.trades)].id = trader.entry_id
        /\ trader.trades[Len(trader.trades)].dir = LONG
        /\ done'.timestamp - LastEntryOpened < done'.timeframe)
       => (/\ CallsOf(done'.calls, "add_trade") = <<>>
           /\ CallsOf(done'.calls, "create_order") = <<>>)]_vars

\* C23: when the order quantity is not positive or quantity * price is
\* below the market's min_notional, process_entry creates no trade, makes
\* no create_order call and emits exactly one notification, with trade id -1.
C23_TooSmallNotOrdered ==
    [][(/\ done'.op = "process_entry"
        /\ \/ done'.quantity <= 0
           \/ done'.quantity * done'.price < MinNotional)
       => (/\ done'.calls = <<NotifyCall(-1, "entry")>>
           /\ trader'.trades = trader.trades
           /\ orders' = orders)]_vars

\* an active trader without trades has just dropped an entry whose order
\* has a quantity but is worth less than min_notional
C23_Witness ==
    /\ done.op = "process_entry"
    /\ done.quantity > 0
    /\ done.quantity * done.price < MinNotional
    /\ trader.activity
    /\ trader.trades = <<>>
    /\ trader.max_trades > 0
    /\ done.calls = <<NotifyCall(-1, "entry")>>

\* C24: loading the dictionary dumps() made of a trade into a fresh trade
\* succeeds and gives a trade equal to the dumped one on every persisted
\* field.
C24_RoundTrip ==
    [][done'.op = "loads"
       => /\ done'.raised = NoError
          /\ done'.ret = True
          /\ \A f \in {"id", "trade_type", "entry_state", "exit_state", "timeframe",
                        "dir", "op", "oq", "tp", "sl", "aep", "axp", "eot", "xot",
                        "e", "x", "pl", "create_oid", "stop_oid", "limit_oid",
                        "create_ref_oid", "stop_ref_oid", "limit_ref_oid",
                        "position_id", "entry_maker", "exit_maker"} :
                done'.loaded[f] = trade[f]]_vars

\* C25: order_signal called with an order event that does not target the
\* trade (is_target_order is false, the id or the reference id possibly
\* None) leaves every field of the trade as it was and raises no error.
C25_ForeignEventDiscarded ==
    [][done'.op = "foreign" => trade' = trade /\ raised' = NoError]_vars

\* C26: every ping() made on a running worker is followed, sooner or later,
\* by a pong of the worker loop, however the ping() calls of other threads
\* fall between the test of the flag, the pong and the clearing of the
\* flag (unless the worker stops running meanwhile).
C26_PingAnswered ==
    (worker.unanswered /\ worker.running) ~> (~worker.unanswered \/ ~worker.running)

\* what C27 says of the worker thread once pre_run has raised: the error is
\* latched, no hook of the loop and no post_run was called, and the thread
\* ends with running false
AbortedStartup(w) ==
    /\ w.error = "pre_run"
    /\ w.thread \in {"abort", "dead"}
    /\ w.iter = <<>>
    /\ w.post_runs = 0
    /\ (w.thread = "dead" /\ w.caller = "idle" => ~w.running)

\* C27: when pre_run raises the startup is aborted (error latched, running
\* ends false, neither a hook of the loop nor post_run is called), and a
\* start() that returns after the worker thread has ended so does not
\* report a started, playing worker.
C27_StartupAborted ==
    [][/\ worker'.aborted => AbortedStartup(worker')
       /\ (worker.aborted /\ worker.thread = "dead"
             /\ worker.caller = "set_play" /\ worker'.caller = "idle")
          => ~(worker'.ret = True /\ worker'.playpause)]_vars

\* C28: an exception of pre_update, update or post_update does not end the
\* worker: as long as stop() has not been called the error is recorded,
\* running is true and the thread is in the loop, and it begins a further
\* iteration (unless stop() is called first).
C28_LoopSurvivesException ==
    /\ [](worker.loop_raised /\ ~worker.stopped
            => /\ worker.error \in {"pre_update", "update", "post_update"}
               /\ worker.running
               /\ worker.thread \in InLoop)
    /\ ((worker.loop_raised /\ ~worker.stopped)
            ~> (worker.resumed \/ worker.stopped))

C28_Witness ==
    /\ worker.loop_raised
    /\ worker.resumed
    /\ ~worker.stopped
    /\ worker.thread = "update"

\* C29: once stop() has set running to false on a worker whose pre_run has
\* returned, the loop begins no new iteration, and the thread ends with
\* running false after exactly one call of post_run.
C29_StopIsCooperative ==
    [][worker.stopped /\ ~worker.aborted
       => /\ ~(worker.thread = "inner" /\ worker'.thread = "test_play")
          /\ (worker.thread # "dead" /\ worker'.thread = "dead"
                => ~worker'.running /\ worker'.post_runs = 1)]_vars

\* the hooks of an iteration, in their order
HookOrder == <<"pre_update", "update", "post_update">>

\* C30: in an iteration that read the playing flag as true the hooks are
\* called in the order pre_update, update, post_update (all three when
\* none raises); an iteration that read it as false calls none; play()
\* and pause() change nothing on a worker that is not running.
C30_HookOrder ==
    [][/\ worker'.iter = SubSeq(HookOrder, 1, Len(worker'.iter))
       /\ (~worker'.iter_play => worker'.iter = <<>>)
       /\ (worker'.thread \in {"test_ping", "pong", "clear_ping"} /\ worker'.iter_play
             => worker'.iter = HookOrder)
       /\ (worker'.calls < worker.calls /\ worker'.last \in {"play", "pause"}
             /\ ~worker.running
             => worker'.playpause = worker.playpause)]_vars

\* the three hooks of an iteration have been called, and pause() was then
\* called on the worker, stopped meanwhile
C30_Witness ==
    /\ worker.thread = "test_ping"
    /\ worker.iter = HookOrder
    /\ ~worker.running
    /\ worker.last = "pause"
    /\ worker.playpause

\* C31: a pass of process leaves a user trade that has a pending operation
\* as it is: sl and tp unchanged, no cancel_open and no close made on it
\* (no call to the broker, no notification), whatever the exit signal.
C31_UserTradeUntouched ==
    [][(done'.op = "process" /\ trade.user_trade /\ trade.operations > 0)
       => /\ trade'.sl = trade.sl
          /\ trade'.tp = trade.tp
          /\ done'.calls = <<>>
          /\ trade' = trade]_vars

\* process has passed over an active user trade with a pending operation
C31_Witness ==
    /\ done.op = "process"
    /\ trade.user_trade
    /\ trade.operations > 0
    /\ Truthy(is_active(trade))
    /\ ~is_closing(trade)
    /\ trade.e > 0

C33_FilterCachedOneHour ==
    [][done'.op = "filter_market"
       => LET last == trader.last_filter_cache
              evaluated == trader'.last_filter_cache[1] = done'.timestamp
                           /\ done'.ret = <<trader'.last_filter_cache[2],
                                            trader'.last_filter_cache[3]>>
          IN  /\ (trader.filtered /\ done'.timestamp - last[1] < FilterCacheTime)
                    => /\ done'.ret = <<last[2], last[3]>>
                       /\ done'.calls = <<>>
                       /\ trader'.last_filter_cache = last
              /\ (trader.filtered /\ done'.timestamp - last[1] >= FilterCacheTime)
                    => evaluated
              /\ ~trader.filtered => evaluated]_vars

\* C34: the worker thread does not hold the trader's lock while the broker
\* call that places the entry order is in progress, and it holds it
\* during the admission checks made on the trades.
C34_NoLockAcrossCreateOrder ==
    /\ trader.thread = "create_order" => trader.mutex.owner # "worker"
    /\ trader.thread = "entry_check" => trader.mutex.owner = "worker"

\* C35: an acknowledgement of the entry order handed over at any time
\* after create_order was invoked, open having returned or not, finds the
\* new trade in the trade set with the reference id of the order, and
\* the trade takes the order id and becomes OPENED.
C35_EarlyAckCorrelated ==
    [][done'.op = "ack"
       => \E i \in 1..Len(trader.trades) :
            /\ trader.trades[i].create_ref_oid = done'.oid
            /\ is_target_order(trader.trades[i], done'.oid, done'.oid) = True
            /\ trader'.trades[i].create_oid = done'.oid
            /\ trader'.trades[i].entry_state = STATE_OPENED]_vars

\* the acknowledgement was handed over while create_order had not returned
C35_Witness ==
    /\ done.op = "ack"
    /\ trader.thread = "create_order"
    /\ \E i \in 1..Len(trader.trades) :
        /\ trader.trades[i].create_oid = done.oid
        /\ trader.trades[i].entry_state = STATE_OPENED

\* C36: when the worker thread has left process, or a method wrapped by
\* Runnable.mutexed, by a return or by an exception, it does not hold the
\* trader's lock.
C36_MutexReleasedOnExit ==
    trader.thread = "idle" => trader.mutex.owner # "worker"

\* C37: once the entry state of the trade is FILLED, no event and no
\* operation moves it to another value.
C37_EntryFilledAbsorbing ==
    [][trade.entry_state = STATE_FILLED => trade'.entry_state = STATE_FILLED]_vars

\* C38: in every state of the trade reached through open, the events of
\* the broker and close, can_delete and is_active are not both true.
C38_ActiveNotDeletable ==
    ~(can_delete(trade) = True /\ is_active(trade) = True)

\* the entry is filled in full and the exit in part: the trade is active,
\* and only the quantity left to exit keeps it from being deletable
C38_Witness ==
    /\ is_active(trade) = True
    /\ can_delete(trade) = False
    /\ trade.e >= trade.oq
    /\ trade.x > 0

\* C39: after a close in which the broker accepted every cancel request,
\* the trade refers to no order any more: create_oid, stop_oid and
\* limit_oid are all None.
C39_NoCanceledOrderKept ==
    [][(/\ done'.op = "market"
        /\ \A k \in 1..Len(done'.calls) :
              done'.calls[k].call = "cancel_order"
              => /\ Live(done'.calls[k].id)
                 /\ orders'[done'.calls[k].id].status = "canceled")
       => /\ trade'.create_oid = None
          /\ trade'.stop_oid = None
          /\ trade'.limit_oid = None]_vars

\* C40: terminate has requested the stop of every running watcher when it
\* begins to join; when it returns, the thread of every watcher that was
\* registered has ended and the registry is empty; start instantiates no
\* watcher for a name that is registered.
C40_TerminateAndStart ==
    [][/\ service'.at = "join"
          => \A n \in 1..Len(service'.watchers) : ~service'.watchers[n].running
       /\ service'.at = "stop" => ~service'.joined
       /\ done'.op = "terminated"
          => /\ \A n \in 1..Len(service.watchers) : ~is_alive(service.watchers[n])
             /\ service'.watchers = <<>>
       /\ done'.op = "start"
          => \A k \in WatcherNames :
                get(service.watchers, k) # 0
                => service'.instances[k] = service.instances[k]]_vars

\* terminate has returned after waiting for the thread of a watcher it
\* had to stop, two watchers having been registered, and a later start
\* found no name registered
C40_Witness ==
    /\ done.op = "start"
    /\ service.joined
    /\ Len(service.watchers) = MaxWatchers
    /\ \A k \in WatcherNames : service.instances[k] = 2

====
